---- MODULE Spec2Model ----
(***************************************************************************)
(* Browser side of the GNN degree predictor / cage generator:              *)
(*   - the graph text format (formatGraphInput, Graph.toEdgeList,          *)
(*     Graph.fromEdgeList),                                                *)
(*   - the edge-list Graph class (interactive-graph.js, GraphEdge records) *)
(*   - the adjacency-list Graph class + InteractiveGraphEditor,            *)
(*   - the degree controller (analyzeGraph / analyzeAllNodes),             *)
(*   - the cage controller (startGeneration / stopGeneration / polling).   *)
(***************************************************************************)
EXTENDS Integers, Sequences, FiniteSets, Bags, TLC

(***************************************************************************)
(* Bounds                                                                  *)
(***************************************************************************)
\* largest vertex id that is typed into the text box
MaxId == 2
\* largest number of lines of a typed text
MaxLines == 3
\* number of GraphNode objects that can be alive at once
MaxObjs == 3
\* largest number of nodes built up with the pointer
MaxNodes == 2
\* pending 100 ms analysis timers / analysis requests in flight
MaxTimers == 2
MaxInflight == 1
\* analysis requests in flight on the page driven with the double click only
MaxOverlap == 2
\* animation frames run on the dragged layout
MaxFrames == 2
\* status polls in flight, sessions the server creates, POST /generate
\* requests and stopGeneration calls under way
MaxPolls == 1
MaxSessions == 1
MaxStarts == 1
MaxStops == 1
\* largest number of edges the pointer may build up
MaxEdges == 2
MaxRecords == 2

(***************************************************************************)
(* Text: a text is a sequence of lines, a line the sequence of its         *)
(* whitespace-separated tokens.  A token is <<kind, n>>:                   *)
(*   <<"int", n>>   the decimal numeral of the integer n                   *)
(*   <<"junk", 0>>  a token that does not start with a numeral ("abc")     *)
(*   <<"huge", 0>>  the numeral 1000000000000000000000 (10^21)             *)
(*   <<"exp", 0>>   the token 1e+21, as JavaScript prints the number 10^21  *)
(* The blank line is the empty sequence of tokens.                         *)
(***************************************************************************)
Tok(n) == <<"int", n>>
JunkTok == <<"junk", 0>>
EmptyTok == <<"empty", 0>>
HugeTok == <<"huge", 0>>
ExpTok == <<"exp", 0>>
\* a numeral followed by other characters, such as "1x"
IntxTok(n) == <<"intx", n>>
\* stands for the number 10^21, above every other id
HugeValue == 1000000

\* parseInt(s): [nan |-> TRUE] for a token without leading numeral
parseInt(tok) ==
  IF tok[1] \in {"int", "intx"} THEN [nan |-> FALSE, v |-> tok[2]]
  ELSE IF tok[1] = "huge" THEN [nan |-> FALSE, v |-> HugeValue]
  ELSE IF tok[1] = "exp" THEN [nan |-> FALSE, v |-> 1]
  ELSE [nan |-> TRUE, v |-> 0]

\* `${v}`: Number::toString, exponent notation from 10^21 on
numeral(v) == IF v = HugeValue THEN ExpTok ELSE Tok(v)

\* line.trim().split(/\s+/): a blank line splits into the single part ""
splitLine(line) == IF line = <<>> THEN <<EmptyTok>> ELSE line

\* text.trim() === "": nothing but blank lines
isBlankText(text) == \A i \in 1..Len(text) : text[i] = <<>>

Min2(a, b) == IF a <= b THEN a ELSE b
Max2(a, b) == IF a >= b THEN a ELSE b

Range(s) == {s[i] : i \in 1..Len(s)}

\* (a, b) => a - b on numbers
numLess(a, b) == a < b
\* (a, b) => a.v1 !== b.v1 ? a.v1 - b.v1 : a.v2 - b.v2
pairLess(a, b) == IF a[1] # b[1] THEN a[1] < b[1] ELSE a[2] < b[2]

RECURSIVE insertSorted(_, _, _)
insertSorted(s, x, isPair) ==
  IF s = <<>> THEN <<x>>
  ELSE IF (IF isPair THEN pairLess(x, Head(s)) ELSE numLess(x, Head(s)))
       THEN <<x>> \o s
       ELSE <<Head(s)>> \o insertSorted(Tail(s), x, isPair)

\* Array.prototype.sort with the comparators above (stable)
RECURSIVE sortSeq(_, _)
sortSeq(s, isPair) ==
  IF s = <<>> THEN <<>>
  ELSE insertSorted(sortSeq(SubSeq(s, 1, Len(s) - 1), isPair), s[Len(s)], isPair)

\* Array.from(set).sort((a, b) => a - b)
RECURSIVE sortSet(_)
sortSet(S) ==
  IF S = {} THEN <<>>
  ELSE LET m == CHOOSE x \in S : \A y \in S : x <= y
       IN <<m>> \o sortSet(S \ {m})

\* the parse loop shared by formatGraphInput and fromEdgeList:
\* the single-token lines that parse, and the two-or-more-token lines whose
\* first two tokens both parse
RECURSIVE parsedSingles(_)
parsedSingles(text) ==
  IF text = <<>> THEN {}
  ELSE LET parts == splitLine(Head(text))
           rest == parsedSingles(Tail(text))
       IN IF Len(parts) = 1 /\ ~parseInt(parts[1]).nan
          THEN {parseInt(parts[1]).v} \cup rest
          ELSE rest

RECURSIVE parsedEdges(_)
parsedEdges(text) ==
  IF text = <<>> THEN <<>>
  ELSE LET parts == splitLine(Head(text))
           rest == parsedEdges(Tail(text))
       IN IF Len(parts) >= 2 /\ ~parseInt(parts[1]).nan /\ ~parseInt(parts[2]).nan
          THEN <<<<parseInt(parts[1]).v, parseInt(parts[2]).v>>>> \o rest
          ELSE rest

\* lines.push(`${id}`) / lines.push(`${v1} ${v2}`)
idLines(ids) == [i \in 1..Len(ids) |-> <<numeral(ids[i])>>]
edgeLines(es) == [i \in 1..Len(es) |-> <<numeral(es[i][1]), numeral(es[i][2])>>]

\* edges.map(e => ({v1: Math.min(..), v2: Math.max(..)}))
minMaxEdges(es) == [i \in 1..Len(es) |-> <<Min2(es[i][1], es[i][2]), Max2(es[i][1], es[i][2])>>]

\* keep the first occurrence of every element
RECURSIVE uniqueSeq(_)
uniqueSeq(s) ==
  IF s = <<>> THEN <<>>
  ELSE LET init == uniqueSeq(SubSeq(s, 1, Len(s) - 1))
       IN IF s[Len(s)] \in Range(init) THEN init ELSE Append(init, s[Len(s)])

\* formatGraphInput without the sort of the edges
formatGraphInputUnsorted(graphStr) ==
  IF isBlankText(graphStr) THEN <<>>
  ELSE LET edges == parsedEdges(graphStr)
           endpoints == UNION {{edges[i][1], edges[i][2]} : i \in 1..Len(edges)}
           isolatedVertices == parsedSingles(graphStr) \ endpoints
       IN idLines(sortSet(isolatedVertices)) \o edgeLines(uniqueSeq(minMaxEdges(edges)))

\* formatGraphInput without the removal of the isolated vertices that have edges
formatGraphInputKeepsIsolated(graphStr) ==
  IF isBlankText(graphStr) THEN <<>>
  ELSE LET edges == parsedEdges(graphStr)
           isolatedVertices == parsedSingles(graphStr)
           formattedEdges == sortSeq(minMaxEdges(edges), TRUE)
           uniqueEdges == uniqueSeq(formattedEdges)
       IN idLines(sortSet(isolatedVertices)) \o edgeLines(uniqueEdges)

\* formatGraphInput of the earlier degree controller, which keeps repeated
\* edge lines
formatGraphInputKeepsRepeated(graphStr) ==
  IF isBlankText(graphStr) THEN <<>>
  ELSE LET edges == parsedEdges(graphStr)
           endpoints == UNION {{edges[i][1], edges[i][2]} : i \in 1..Len(edges)}
           isolatedVertices == parsedSingles(graphStr) \ endpoints
           formattedEdges == sortSeq(minMaxEdges(edges), TRUE)
       IN idLines(sortSet(isolatedVertices)) \o edgeLines(formattedEdges)

\* formatGraphInput of the degree controller (frontend/js/app.js)
formatGraphInput(graphStr) ==
  IF isBlankText(graphStr) THEN <<>>
  ELSE LET edges == parsedEdges(graphStr)
           endpoints == UNION {{edges[i][1], edges[i][2]} : i \in 1..Len(edges)}
           isolatedVertices == parsedSingles(graphStr) \ endpoints
           formattedEdges == sortSeq(minMaxEdges(edges), TRUE)
           uniqueEdges == uniqueSeq(formattedEdges)
       IN idLines(sortSet(isolatedVertices)) \o edgeLines(uniqueEdges)



(***************************************************************************)
(* State                                                                   *)
(***************************************************************************)
VARIABLES
  \* the text box #graphInput, and the text the last formatGraphInput read
  graphInput, fmtIn,
  \* edge-list Graph: nodes (ids, in array order) and GraphEdge records
  elNodes, elEdges,
  \* adjacency-list Graph: graph.nodes (object references, in array order),
  \* and per GraphNode object its id, neighbors, prediction and fixed flag
  nodes, nid, nbrs, pred, fixed,
  \* InteractiveGraphEditor interaction state
  selectedNode, draggingNode, edgeStart, panningCanvas,
  \* degree controller: pending setTimeout(analyzeGraph, 100) callbacks,
  \* analysis requests in flight, #loading, #analyzeBtn, #errorMessage
  timers, inflight, loading, analyzeBtnDisabled, errorShown,
  \* cage controller: #generateBtn, #stopBtn, #statusDisplay (its blocks),
  \* the globals currentSessionId and pollingInterval, the sessions the
  \* server has created, and the requests in flight: POST /generate, the
  \* status polls of the interval callback, the stopGeneration calls under way
  generateBtnDisabled, stopBtnDisabled, statusDisplay,
  currentSessionId, pollingInterval, sessions, starts, polls, stops,
  \* the intervals setInterval has created and clearInterval has not cleared
  intervals,
  \* of the last handler: the k and g fields startGeneration read, whether it
  \* alerted, whether it sent a request, the status a poll received
  startIn, alerted, requestSent, lastStatus,
  \* stopGeneration has shown its panel, and startGeneration has neither been
  \* called nor started polling since
  stopFinished,
  \* GraphNode.x, GraphNode.y of each object, and the animation frames run
  posX, posY, frames,
  \* physics.enabled, and for the last loadFromEdgeList the number of
  \* physics.step calls that got past the gate and the x the nodes were placed at
  physicsEnabled, stepsRun, placedX,
  \* GraphNode.vx of the velocity-based engine
  velX,
  \* generation settings dialog: the values of #minNodes, #maxNodes, #minProb,
  \* #maxProb, the texts of #nodeRangeDisplay and #probRangeDisplay, whether
  \* #settingsModal is shown, and getGraphSettings() as it was when the dialog
  \* was opened
  settingsFields, rangeDisplays, settingsModalShown, settingsAtOpen,
  \* cage settings: which cage controller script runs, the item
  \* cageGeneratorSettings of localStorage, the values of #generatorType,
  \* #pollingInterval and #enablePhysics, and what loadSettings() returned last
  cageScript, cageStorage, cageSettingsFields, cageSettingsRead,
  \* configuration load: which config script and which controller the page
  \* includes, the global API_BASE_URL, how far loadConfig has got, what the
  \* server answered, whether loadConfig threw, whether the controller script
  \* has run, the URL its last request used, and whether loadConfig assigned
  \* API_BASE_URL after the controller script had run
  configScript, page, API_BASE_URL, configLoad, configAnswer, configThrew,
  controllerStarted, urlUsed, assignedAfterStart,
  \* the node the last handler removed, while a reference to it is left,
  \* and the handler that ran last
  removedNode, hadPrediction, lastPredictions, lastOp

textVars == <<graphInput, fmtIn>>
elVars == <<elNodes, elEdges>>
graphVars == <<nodes, nid, nbrs, pred, fixed>>
uiVars == <<selectedNode, draggingNode, edgeStart, panningCanvas>>
ctlVars == <<timers, inflight, loading, analyzeBtnDisabled, errorShown>>
cageUi == <<generateBtnDisabled, stopBtnDisabled, statusDisplay, currentSessionId,
            pollingInterval, intervals>>
cageNet == <<sessions, starts, polls, stops>>
cageLast == <<startIn, alerted, requestSent, lastStatus, stopFinished>>
cageVars == <<cageUi, cageNet, cageLast>>
settleVars == <<physicsEnabled, stepsRun, placedX, velX>>
physVars == <<posX, posY, frames, settleVars>>
cageSetVars == <<cageScript, cageStorage, cageSettingsFields, cageSettingsRead>>
settingsVars == <<settingsFields, rangeDisplays, settingsModalShown, settingsAtOpen, cageSetVars>>
configVars == <<configScript, page, API_BASE_URL, configLoad, configAnswer, configThrew,
                controllerStarted, urlUsed, assignedAfterStart>>
sideVars == <<physVars, settingsVars, configVars>>
vars == <<textVars, elVars, graphVars, uiVars, ctlVars, cageVars, sideVars, removedNode, hadPrediction, lastPredictions,
          lastOp>>

\* null object reference
null == 0
Refs == 1..MaxObjs

\* a coordinate: a number, in units of 1/PxScale pixel, or NaN
Num(v) == <<"num", v>>
NaN == <<"nan", 0>>

(***************************************************************************)
(* Typed texts                                                             *)
(***************************************************************************)
Ids == 0..MaxId
\* lines typed into the text box beside an editor: a vertex, an edge (smaller
\* endpoint first, or "1 0"), a blank line, lines with a part that is no number
\* or with a third part
TypedLines ==
  {<<Tok(a)>> : a \in Ids}
  \cup {<<Tok(e[1]), Tok(e[2])>> : e \in {p \in Ids \X Ids : p[1] <= p[2]}}
  \cup {<<Tok(1), Tok(0)>>}
  \cup {<<>>, <<JunkTok>>, <<Tok(0), JunkTok>>, <<Tok(0), Tok(1), Tok(2)>>}
\* one edit of the text box: a further line is typed, or the box is emptied
Edits(text) ==
  {Append(text, line) : line \in IF Len(text) < MaxLines THEN TypedLines ELSE {}}
  \cup {<<>>}
\* the texts formatGraphInput is applied to: every edge line in both orders
FormatLines ==
  TypedLines \cup {<<Tok(a), Tok(b)>> : a \in Ids, b \in Ids}
             \cup {<<HugeTok>>, <<Tok(0), HugeTok>>}
FormatTexts == UNION {[1..n -> FormatLines] : n \in 0..MaxLines}

(***************************************************************************)
(* Edge-list Graph class (GraphEdge records)                               *)
(***************************************************************************)
\* the smallest id not in use
RECURSIVE smallestFree(_, _)
smallestFree(used, n) == IF n \in used THEN smallestFree(used, n + 1) ELSE n

removeAt(s, i) == SubSeq(s, 1, i - 1) \o SubSeq(s, i + 1, Len(s))

\* GraphEdge.contains(nodeA, nodeB)
edgeContains(e, a, b) == (e[1] = a /\ e[2] = b) \/ (e[1] = b /\ e[2] = a)

\* Graph.findEdge: index of the first edge joining a and b, 0 if none
findEdge(edges, a, b) ==
  IF \E i \in 1..Len(edges) : edgeContains(edges[i], a, b)
  THEN CHOOSE i \in 1..Len(edges) :
         /\ edgeContains(edges[i], a, b)
         /\ \A j \in 1..(i - 1) : ~edgeContains(edges[j], a, b)
  ELSE 0

\* Graph.addEdge that never toggles an edge off
ELaddEdgeNoToggle(edges, a, b) == Append(edges, <<a, b>>)

\* Graph.addEdge: toggles the first a-b edge off, or pushes a new edge
ELaddEdge(edges, a, b) ==
  LET i == findEdge(edges, a, b)
  IN IF i # 0 THEN removeAt(edges, i) ELSE Append(edges, <<a, b>>)

\* Graph.removeNode
ELremoveNodeEdges(edges, n) == LET keep(e) == e[1] # n /\ e[2] # n IN SelectSeq(edges, keep)
ELremoveNodeNodes(ns, n) == LET keep(x) == x # n IN SelectSeq(ns, keep)

\* Graph.toEdgeList
ELtoEdgeList(ns, edges) ==
  LET verticesWithEdges == UNION {{edges[i][1], edges[i][2]} : i \in 1..Len(edges)}
      isolatedVertices == sortSet(Range(ns) \ verticesWithEdges)
      edgeList == sortSeq(minMaxEdges(edges), TRUE)
  IN idLines(isolatedVertices) \o edgeLines(edgeList)

\* Graph.fromEdgeList: the node ids and the edge records it creates
fromEdgeListIds(text) ==
  IF isBlankText(text) THEN <<>>
  ELSE LET edgeData == parsedEdges(text)
       IN sortSet(parsedSingles(text)
                  \cup UNION {{edgeData[i][1], edgeData[i][2]} : i \in 1..Len(edgeData)})
fromEdgeListEdges(text) == IF isBlankText(text) THEN <<>> ELSE parsedEdges(text)


(***************************************************************************)
(* Adjacency-list Graph class and GraphNode.  An editor state is handled   *)
(* as a record E of the fields below, and every method is an operator      *)
(* from records to records.                                                *)
(*   nodes  graph.nodes             nid    GraphNode.id                    *)
(*   nbrs   GraphNode.neighbors     pred   GraphNode.predicted / .actual   *)
(*   fixed  GraphNode.fixed         sel    selectedNode                    *)
(*   drag   draggingNode            es     edgeStart                       *)
(*   pan    panningCanvas           input  #graphInput.value               *)
(*   timers pending triggerAnalyze timeouts                                *)
(*   removed the node deleteNode has removed in the running handler        *)
(* pred[r] is NoPrediction, or whether the shown values answered a request  *)
(* for the graph as it was when they were stored.                          *)
(***************************************************************************)
NoPrediction == <<"none">>
PredictionFor(isCurrent) == IF isCurrent THEN <<"current">> ELSE <<"stale">>

\* objects reachable from a set of objects through neighbors
RECURSIVE closure(_, _)
closure(S, nb) ==
  LET T == S \cup UNION {Range(nb[r]) : r \in S}
  IN IF T = S THEN S ELSE closure(T, nb)

\* objects the program can still reach, and references free for new objects
Live(E) == closure((Range(E.nodes) \cup {E.sel, E.drag, E.es}) \ {null}, E.nbrs)
FreeRefs(E) == Refs \ Live(E)
\* new GraphNode(id, x, y)
newGraphNode(E, r, id) ==
  [E EXCEPT !.nid[r] = id, !.nbrs[r] = <<>>, !.pred[r] = NoPrediction, !.fixed[r] = FALSE]

\* index of the first occurrence, 0 if none (Array.indexOf)
indexOf(s, x) ==
  IF x \in Range(s)
  THEN CHOOSE i \in 1..Len(s) : s[i] = x /\ \A j \in 1..(i - 1) : s[j] # x
  ELSE 0
removeFirst(s, x) == IF indexOf(s, x) = 0 THEN s ELSE removeAt(s, indexOf(s, x))

\* GraphNode.addNeighbor without the includes test
addNeighborAlways(E, r, x) == [E EXCEPT !.nbrs[r] = Append(@, x)]

\* GraphNode.addNeighbor / removeNeighbor / hasNeighbor / hasPrediction
addNeighbor(E, r, x) ==
  IF x \in Range(E.nbrs[r]) THEN E ELSE [E EXCEPT !.nbrs[r] = Append(@, x)]
removeNeighbor(E, r, x) == [E EXCEPT !.nbrs[r] = removeFirst(@, x)]
hasNeighbor(E, r, x) == x \in Range(E.nbrs[r])
hasPrediction(E, r) == E.pred[r] # NoPrediction

usedIds(E) == {E.nid[r] : r \in Range(E.nodes)}

\* GraphNode.degree
degree(E, r) == Len(E.nbrs[r])

\* Graph.addNode numbering the new node by the count of the nodes
graphAddNodeByCount(E) ==
  LET r == CHOOSE x \in FreeRefs(E) : \A y \in FreeRefs(E) : x <= y
  IN [newGraphNode(E, r, Len(E.nodes)) EXCEPT !.nodes = Append(@, r)]

\* Graph.addNode: the new node is the last of graph.nodes
graphAddNode(E) ==
  LET r == CHOOSE x \in FreeRefs(E) : \A y \in FreeRefs(E) : x <= y
      newId == smallestFree(usedIds(E), 0)
  IN [newGraphNode(E, r, newId) EXCEPT !.nodes = Append(@, r)]

\* Graph.removeNode
graphRemoveNode(E, node) ==
  [E EXCEPT !.nbrs = [r \in Refs |-> IF r \in Range(E.nodes)
                                     THEN removeFirst(E.nbrs[r], node)
                                     ELSE E.nbrs[r]],
            !.nodes = removeFirst(@, node)]

\* Graph.removeEdge
graphRemoveEdge(E, a, b) == removeNeighbor(removeNeighbor(E, a, b), b, a)


\* Graph.addEdge
graphAddEdge(E, a, b) ==
  IF hasNeighbor(E, a, b)
  THEN graphRemoveEdge(E, a, b)
  ELSE addNeighbor(addNeighbor(E, a, b), b, a)

\* Graph.clear
graphClear(E) == [E EXCEPT !.nodes = <<>>]

\* Graph.clearPredictions leaving every prediction in place
clearPredictionsKeepsShown(E) == E

\* Graph.clearPredictions
clearPredictions(E) ==
  [E EXCEPT !.pred = [r \in Refs |-> IF r \in Range(E.nodes) THEN NoPrediction
                                     ELSE E.pred[r]]]

\* Graph.getEdges: <<node, neighbor>> in iteration order, one per id key
RECURSIVE flatPairs(_, _)
flatPairs(E, ns) ==
  IF ns = <<>> THEN <<>>
  ELSE [i \in 1..Len(E.nbrs[Head(ns)]) |-> <<Head(ns), E.nbrs[Head(ns)][i]>>]
       \o flatPairs(E, Tail(ns))
edgeKey(E, e) == <<Min2(E.nid[e[1]], E.nid[e[2]]), Max2(E.nid[e[1]], E.nid[e[2]])>>
getEdges(E) ==
  LET all == flatPairs(E, E.nodes)
      firstOfKey(i) == \A j \in 1..(i - 1) : edgeKey(E, all[j]) # edgeKey(E, all[i])
      RECURSIVE pick(_)
      pick(i) == IF i > Len(all) THEN <<>>
                 ELSE (IF firstOfKey(i) THEN <<all[i]>> ELSE <<>>) \o pick(i + 1)
  IN pick(1)

\* Graph.toEdgeList
toEdgeList(E) ==
  LET isolated == {E.nid[r] : r \in {x \in Range(E.nodes) : Len(E.nbrs[x]) = 0}}
      ge == getEdges(E)
      edges == sortSeq([i \in 1..Len(ge) |-> edgeKey(E, ge[i])], TRUE)
  IN idLines(sortSet(isolated)) \o edgeLines(edges)

\* Graph.fromEdgeList
RECURSIVE createNodes(_, _, _)
createNodes(E, ids, free) ==
  IF ids = <<>> THEN E
  ELSE createNodes([newGraphNode(E, Head(free), Head(ids)) EXCEPT !.nodes = Append(@, Head(free))],
                   Tail(ids), Tail(free))
nodeOfId(E, id) == CHOOSE r \in Range(E.nodes) : E.nid[r] = id
RECURSIVE createEdges(_, _)
createEdges(E, edgeData) ==
  IF edgeData = <<>> THEN E
  ELSE LET fromNode == nodeOfId(E, Head(edgeData)[1])
           toNode == nodeOfId(E, Head(edgeData)[2])
       IN createEdges(addNeighbor(addNeighbor(E, fromNode, toNode), toNode, fromNode),
                      Tail(edgeData))
graphFromEdgeList(E, text) ==
  LET C == graphClear(E)
  IN IF isBlankText(text) THEN C
     ELSE createEdges(createNodes(C, fromEdgeListIds(text), sortSet(FreeRefs(C))),
                      parsedEdges(text))

\* Graph.updatePredictions with the predictions of one response: ids is the
\* set of node_id of the response, text the request it answers
graphUpdatePredictions(E, ids, text) ==
  LET C == clearPredictions(E)
  IN [C EXCEPT !.pred = [r \in Refs |-> IF r \in Range(C.nodes) /\ C.nid[r] \in ids
                                        THEN PredictionFor(text = toEdgeList(C))
                                        ELSE C.pred[r]]]

\* GraphNode.setPrediction(predicted, actual)
Shown(predicted, actual) == <<"shown", predicted, actual>>
setPrediction(E, r, predicted, actual) == [E EXCEPT !.pred[r] = Shown(predicted, actual)]

\* predictions.forEach of Graph.updatePredictions
RECURSIVE applyPredictions(_, _)
applyPredictions(E, predictions) ==
  IF predictions = <<>> THEN E
  ELSE LET p == Head(predictions)
           found == {r \in Range(E.nodes) : E.nid[r] = p.nodeId}
           node == CHOOSE r \in found : \A x \in found : indexOf(E.nodes, r) <= indexOf(E.nodes, x)
       IN applyPredictions(IF found = {} THEN E
                           ELSE setPrediction(E, node, p.predicted, p.actual),
                           Tail(predictions))

\* Graph.updatePredictions without the clearPredictions call
graphUpdatePredictionListNoClear(E, predictions) == applyPredictions(E, predictions)

\* Graph.updatePredictions(predictions), predictions an array of
\* {nodeId, predicted, actual}
graphUpdatePredictionList(E, predictions) ==
  applyPredictions(clearPredictions(E), predictions)

(***************************************************************************)
(* Initial state                                                           *)
(***************************************************************************)
InitText == graphInput = <<>> /\ fmtIn = <<>>
InitEL == elNodes = <<>> /\ elEdges = <<>>
InitGraph ==
  /\ nodes = <<>>
  /\ nid = [r \in Refs |-> 0]
  /\ nbrs = [r \in Refs |-> <<>>]
  /\ pred = [r \in Refs |-> NoPrediction]
  /\ fixed = [r \in Refs |-> FALSE]
InitUi ==
  /\ selectedNode = null /\ draggingNode = null /\ edgeStart = null
  /\ panningCanvas = FALSE
InitCtl ==
  /\ timers = 0 /\ inflight = <<>> /\ loading = FALSE
  /\ analyzeBtnDisabled = FALSE /\ errorShown = FALSE
NoStatus == [is_complete |-> FALSE, success |-> FALSE]
InitCage ==
  /\ generateBtnDisabled = FALSE /\ stopBtnDisabled = TRUE /\ statusDisplay = <<>>
  /\ currentSessionId = null /\ pollingInterval = null /\ intervals = {}
  /\ sessions = 0 /\ starts = <<>> /\ polls = <<>> /\ stops = <<>>
  /\ startIn = <<>> /\ alerted = FALSE /\ requestSent = FALSE /\ lastStatus = NoStatus
  /\ stopFinished = FALSE
InitPhys ==
  /\ posX = [r \in Refs |-> Num(0)] /\ posY = [r \in Refs |-> Num(0)]
  /\ frames = 0
  /\ physicsEnabled = TRUE /\ stepsRun = 0 /\ placedX = [r \in Refs |-> Num(0)]
  /\ velX = [r \in Refs |-> 0]
\* getGraphSettings: parseInt(value) || fallback, parseFloat(value) / 100 || fallback
\* (probabilities in hundredths)
orDefault(p, fallback) == IF p.nan \/ p.v = 0 THEN fallback ELSE p.v
getGraphSettings(fields) ==
  [min_nodes |-> orDefault(parseInt(fields.minNodes), 5),
   max_nodes |-> orDefault(parseInt(fields.maxNodes), 12),
   min_probability |-> orDefault(parseInt(fields.minProb), 15),
   max_probability |-> orDefault(parseInt(fields.maxProb), 60)]
\* updateRangeDisplays: the two range texts
updateRangeDisplays(fields) ==
  [nodeRangeDisplay |-> <<fields.minNodes, fields.maxNodes>>,
   probRangeDisplay |-> <<fields.minProb, fields.maxProb>>]
\* a cage settings object is a record over the three field names; a field
\* the object does not have is Undefined. localStorage.getItem gives NoItem
\* (null) or the JSON text of such an object
Undefined == <<"undefined", 0>>
Str(v) == <<"str", v>>
Bool(v) == <<"bool", v>>
JsonNull == <<"jsonnull", 0>>
NoItem == <<"null", 0>>
JsonText(rec) == <<"json", rec>>
CageScripts == {"cage/app.js", "part_007"}
defaultSettings(script) ==
  IF script = "part_007"
  THEN [generatorType |-> Str("randomwalk"), pollingInterval |-> Num(300),
        enablePhysics |-> Bool(FALSE)]
  ELSE [generatorType |-> Str("constructive"), pollingInterval |-> Num(300),
        enablePhysics |-> Undefined]
\* { ...a, ...b }
spread(a, b) == [f \in DOMAIN a |-> IF b[f] # Undefined THEN b[f] ELSE a[f]]
\* JSON.stringify of a settings object (NaN is written as null), JSON.parse
JSONstringify(rec) == JsonText([f \in DOMAIN rec |-> IF rec[f] = NaN THEN JsonNull ELSE rec[f]])
JSONparse(item) == item[2]
\* { ...JSON.parse(saved), ...defaultSettings }: the defaults win
loadSettingsDefaultsWin(script, saved) ==
  IF saved # NoItem THEN spread(JSONparse(saved), defaultSettings(script))
  ELSE defaultSettings(script)
\* loadSettings
loadSettings(script, saved) ==
  IF saved # NoItem THEN spread(defaultSettings(script), JSONparse(saved))
  ELSE defaultSettings(script)
\* the settings object saveSettings builds from the dialog
settingsOfDialog(script, fields) ==
  LET p == parseInt(fields.pollingInterval)
  IN [generatorType |-> Str(fields.generatorType),
      pollingInterval |-> IF p.nan THEN NaN ELSE Num(p.v),
      enablePhysics |-> IF script = "part_007" THEN Bool(fields.enablePhysics)
                        ELSE Undefined]
\* element.value = v, element.checked = v of openSettings
fieldsOfSettings(script, settings, fields) ==
  [generatorType |-> settings.generatorType[2],
   pollingInterval |-> IF settings.pollingInterval[1] = "num"
                       THEN Tok(settings.pollingInterval[2]) ELSE EmptyTok,
   enablePhysics |-> IF script = "part_007" THEN settings.enablePhysics = Bool(TRUE)
                     ELSE fields.enablePhysics]
InitCageSettings ==
  /\ cageScript = "cage/app.js"
  /\ cageStorage = NoItem
  /\ cageSettingsFields = [generatorType |-> "constructive", pollingInterval |-> Tok(300),
                           enablePhysics |-> FALSE]
  /\ cageSettingsRead = defaultSettings(cageScript)
InitSettings ==
  /\ InitCageSettings
  /\ settingsFields = [minNodes |-> Tok(5), maxNodes |-> Tok(12),
                       minProb |-> Tok(15), maxProb |-> Tok(60)]
  /\ rangeDisplays = updateRangeDisplays(settingsFields)
  /\ settingsModalShown = FALSE
  /\ settingsAtOpen = getGraphSettings(settingsFields)
\* the hardcoded default of the config script, the URL the server delivers
\* and the one cage/app.js assigns
DefaultUrl(script) ==
  IF script = "part_001" THEN "http://localhost:5555" ELSE "http://localhost:5555/api/degree"
DeliveredUrl == "apiBaseUrl of /api/config"
CageUrl == "http://localhost:5555/api/cage"
InitConfigOf(script, pg) ==
  /\ configScript = script /\ page = pg
  /\ API_BASE_URL = DefaultUrl(script)
  /\ configLoad = "idle" /\ configAnswer = "none" /\ configThrew = FALSE
  /\ controllerStarted = FALSE /\ urlUsed = "none" /\ assignedAfterStart = FALSE
InitConfig == InitConfigOf("shared/config.js", "degree")
InitSide == InitPhys /\ InitSettings /\ InitConfig
Init ==
  /\ InitText /\ InitEL /\ InitGraph /\ InitUi /\ InitCtl /\ InitCage /\ InitSide
  /\ removedNode = null /\ hadPrediction = FALSE /\ lastPredictions = <<>>
  /\ lastOp = "init"

(***************************************************************************)
(* The edge-list editor: Graph with GraphEdge records behind the text box  *)
(***************************************************************************)
\* input event of #graphInput -> loadFromEdgeList(e.target.value)
ELLoad(text) ==
  /\ graphInput' = text
  /\ elNodes' = fromEdgeListIds(text)
  /\ elEdges' = fromEdgeListEdges(text)
  /\ lastOp' = "load"
  /\ fmtIn' = <<>>
  /\ UNCHANGED <<sideVars, graphVars, uiVars, ctlVars, cageVars, removedNode, hadPrediction, lastPredictions>>

\* InteractiveGraph.addNode -> Graph.addNode, updateGraphInput
ELAddNode ==
  /\ Len(elNodes) < MaxNodes
  /\ elNodes' = Append(elNodes, smallestFree(Range(elNodes), 0))
  /\ graphInput' = ELtoEdgeList(elNodes', elEdges)
  /\ lastOp' = "addNode"
  /\ fmtIn' = <<>>
  /\ UNCHANGED <<sideVars, elEdges, graphVars, uiVars, ctlVars, cageVars, removedNode, hadPrediction, lastPredictions>>

\* InteractiveGraph.deleteNode -> Graph.removeNode, updateGraphInput
ELDeleteNode(n) ==
  /\ elEdges' = ELremoveNodeEdges(elEdges, n)
  /\ elNodes' = ELremoveNodeNodes(elNodes, n)
  /\ graphInput' = ELtoEdgeList(elNodes', elEdges')
  /\ lastOp' = "deleteNode"
  /\ fmtIn' = <<>>
  /\ UNCHANGED <<sideVars, graphVars, uiVars, ctlVars, cageVars, removedNode, hadPrediction, lastPredictions>>

\* InteractiveGraph.addEdge -> Graph.addEdge, updateGraphInput
ELToggleEdge(a, b) ==
  /\ findEdge(elEdges, a, b) # 0 \/ Len(elEdges) < MaxEdges
  /\ elEdges' = ELaddEdge(elEdges, a, b)
  /\ graphInput' = ELtoEdgeList(elNodes, elEdges')
  /\ lastOp' = "addEdge"
  /\ fmtIn' = <<>>
  /\ UNCHANGED <<sideVars, elNodes, graphVars, uiVars, ctlVars, cageVars, removedNode, hadPrediction, lastPredictions>>

NextEL ==
  \/ \E text \in Edits(graphInput) : ELLoad(text)
  \/ ELAddNode
  \/ \E n \in Range(elNodes) : ELDeleteNode(n)
  \/ \E a \in Range(elNodes), b \in Range(elNodes) : ELToggleEdge(a, b)

SpecEL == Init /\ [][NextEL]_vars


(***************************************************************************)
(* formatGraphInput applied to the text box                                *)
(***************************************************************************)
InitFormat ==
  /\ graphInput \in FormatTexts /\ fmtIn = <<>>
  /\ InitEL /\ InitGraph /\ InitUi /\ InitCtl /\ InitCage /\ InitSide
  /\ removedNode = null /\ hadPrediction = FALSE /\ lastPredictions = <<>>
  /\ lastOp = "init"

\* analyzeGraph, first statements: graphInput.value = formatGraphInput(graphInput.value)
FormatInput ==
  /\ fmtIn' = graphInput
  /\ graphInput' = formatGraphInput(graphInput)
  /\ lastOp' = "format"
  /\ UNCHANGED <<sideVars, elVars, graphVars, uiVars, ctlVars, cageVars, removedNode, hadPrediction, lastPredictions>>

NextFormat == FormatInput

SpecFormat == InitFormat /\ [][NextFormat]_vars

(***************************************************************************)
(* InteractiveGraphEditor                                                  *)
(***************************************************************************)
\* the current state as a record
Cur ==
  [nodes |-> nodes, nid |-> nid, nbrs |-> nbrs, pred |-> pred, fixed |-> fixed,
   sel |-> selectedNode, drag |-> draggingNode, es |-> edgeStart,
   pan |-> panningCanvas, input |-> graphInput, timers |-> timers,
   removed |-> null]

\* updateGraphInput
updateGraphInput(E) == [E EXCEPT !.input = toEdgeList(E)]

\* triggerAnalyze: setTimeout(analyzeGraph, 100) unless a prediction is shown
triggerAnalyze(E) ==
  IF Len(E.nodes) > 0 /\ ~(\E r \in Range(E.nodes) : hasPrediction(E, r))
  THEN [E EXCEPT !.timers = @ + 1]
  ELSE E

\* InteractiveGraphEditor.addNode
editorAddNode(E) ==
  triggerAnalyze(updateGraphInput(graphAddNode(clearPredictions(E))))


\* InteractiveGraphEditor.deleteNode
editorDeleteNode(E, node) ==
  LET C == clearPredictions(E)
      D == [C EXCEPT !.sel = IF C.sel = node THEN null ELSE @, !.removed = node]
  IN triggerAnalyze(updateGraphInput(graphRemoveNode(D, node)))

\* InteractiveGraphEditor.addEdge
editorAddEdge(E, fromNode, toNode) ==
  triggerAnalyze(updateGraphInput(graphAddEdge(clearPredictions(E), fromNode, toNode)))

\* InteractiveGraphEditor.loadFromEdgeList
loadFromEdgeList(E, text) ==
  [graphFromEdgeList([E EXCEPT !.sel = null], text) EXCEPT !.sel = null]

\* InteractiveGraphEditor.clear
editorClear(E) ==
  updateGraphInput([graphClear(E) EXCEPT !.sel = null, !.es = null])

\* handleLeftClick on a node / on empty canvas
handleLeftClickNode(E, node) ==
  IF E.es # null
  THEN [editorAddEdge(E, E.es, node) EXCEPT !.es = null]
  ELSE [E EXCEPT !.sel = node, !.drag = node, !.fixed[node] = TRUE]
handleLeftClickEmpty(E) ==
  IF E.es # null
  THEN LET A == graphAddNode(E)
           newNode == A.nodes[Len(A.nodes)]
           B == [editorAddEdge(A, A.es, newNode) EXCEPT !.es = null]
       IN triggerAnalyze(updateGraphInput(B))
  ELSE [E EXCEPT !.pan = TRUE, !.sel = null]

\* handleLeftRelease
handleLeftRelease(E) ==
  LET P == [E EXCEPT !.pan = FALSE]
  IN IF P.drag # null THEN [P EXCEPT !.fixed[P.drag] = FALSE, !.drag = null] ELSE P

\* handleRightClick on a node / on empty canvas
handleRightClickNode(E, node) ==
  IF E.es = null THEN [E EXCEPT !.es = node]
  ELSE [editorAddEdge(E, E.es, node) EXCEPT !.es = null]
handleRightClickEmpty(E) == [E EXCEPT !.es = null]

\* Garbage: an object no reference reaches is forgotten, and so are the
\* fields of a removed node that no handler can read any more: only its id
\* (through a neighbors entry of a present node) and, for the edge-draw start,
\* its neighbors entries that are present nodes (addEdge(edgeStart, node)).
collect(E) ==
  LET present == Range(E.nodes)
      keepNbrs(r) ==
        IF r \in present THEN E.nbrs[r]
        ELSE IF r = E.es THEN LET inGraph(x) == x \in present IN SelectSeq(E.nbrs[r], inGraph)
        ELSE <<>>
      P == [E EXCEPT !.nbrs = [r \in Refs |-> keepNbrs(r)]]
      live == Live(P)
  IN [P EXCEPT !.nid = [r \in Refs |-> IF r \in live THEN @[r] ELSE 0],
               !.nbrs = [r \in Refs |-> IF r \in live THEN @[r] ELSE <<>>],
               !.pred = [r \in Refs |-> IF r \in present THEN @[r] ELSE NoPrediction],
               !.fixed = [r \in Refs |-> IF r \in present THEN @[r] ELSE FALSE]]

\* Objects have no address a handler can read: the live objects are numbered
\* in the order graph.nodes, edgeStart, draggingNode, selectedNode, then the
\* neighbors entries met from these.
RECURSIVE flatNbrs(_, _)
flatNbrs(E, rs) ==
  IF rs = <<>> THEN <<>> ELSE E.nbrs[Head(rs)] \o flatNbrs(E, Tail(rs))
RECURSIVE reachSeq(_, _, _)
reachSeq(E, rs, n) ==
  IF n = 0 THEN rs ELSE reachSeq(E, uniqueSeq(rs \o flatNbrs(E, rs)), n - 1)
objectOrder(E) ==
  LET notNull(x) == x # null
  IN reachSeq(E, uniqueSeq(E.nodes \o SelectSeq(<<E.es, E.drag, E.sel, E.removed>>, notNull)),
              MaxObjs)
renumber(E) ==
  LET ord == objectOrder(E)
      to(r) == IF r = null THEN null ELSE indexOf(ord, r)
      from(k) == ord[k]
  IN [E EXCEPT !.nodes = [i \in 1..Len(E.nodes) |-> to(E.nodes[i])],
               !.nid = [k \in Refs |-> IF k <= Len(ord) THEN E.nid[from(k)] ELSE 0],
               !.nbrs = [k \in Refs |-> IF k <= Len(ord)
                                        THEN [i \in 1..Len(E.nbrs[from(k)]) |-> to(E.nbrs[from(k)][i])]
                                        ELSE <<>>],
               !.pred = [k \in Refs |-> IF k <= Len(ord) THEN E.pred[from(k)] ELSE NoPrediction],
               !.fixed = [k \in Refs |-> IF k <= Len(ord) THEN E.fixed[from(k)] ELSE FALSE],
               !.sel = to(E.sel), !.drag = to(E.drag), !.es = to(E.es),
               !.removed = to(E.removed)]

\* the state after a handler that ended in record E0; removedNode is the node
\* the handler removed with deleteNode, if a reference to it is left, and
\* hadPrediction tells whether a node showed a prediction when the handler began
Commit(E0, op) ==
  \E E1 \in {E0} : \E C \in {collect(E1)} :
  \E E \in {renumber([C EXCEPT !.removed = IF @ \in Live(C) THEN @ ELSE null])} :
     /\ E.timers <= MaxTimers
     /\ nodes' = E.nodes /\ nid' = E.nid /\ nbrs' = E.nbrs /\ pred' = E.pred
     /\ fixed' = E.fixed
     /\ selectedNode' = E.sel /\ draggingNode' = E.drag /\ edgeStart' = E.es
     /\ panningCanvas' = E.pan
     /\ graphInput' = E.input
     /\ timers' = E.timers
     /\ removedNode' = E.removed
     /\ hadPrediction' = (\E r \in Range(nodes) : pred[r] # NoPrediction)
     /\ lastPredictions' = <<>>
     /\ lastOp' = op
     /\ fmtIn' = <<>>

canAllocate(E, n) == Cardinality(FreeRefs(E)) >= n /\ Len(E.nodes) + n <= MaxNodes

LeftClickNode(node) ==
  /\ Commit(handleLeftClickNode(Cur, node), "ui")
  /\ UNCHANGED <<sideVars, elVars, inflight, loading, analyzeBtnDisabled, errorShown, cageVars>>

LeftClickEmpty ==
  /\ edgeStart # null => canAllocate(Cur, 1)
  /\ Commit(handleLeftClickEmpty(Cur), "ui")
  /\ UNCHANGED <<sideVars, elVars, inflight, loading, analyzeBtnDisabled, errorShown, cageVars>>

LeftRelease ==
  /\ Commit(handleLeftRelease(Cur), "ui")
  /\ UNCHANGED <<sideVars, elVars, inflight, loading, analyzeBtnDisabled, errorShown, cageVars>>

RightClickNode(node) ==
  /\ Commit(handleRightClickNode(Cur, node), "ui")
  /\ UNCHANGED <<sideVars, elVars, inflight, loading, analyzeBtnDisabled, errorShown, cageVars>>

RightClickEmpty ==
  /\ Commit(handleRightClickEmpty(Cur), "ui")
  /\ UNCHANGED <<sideVars, elVars, inflight, loading, analyzeBtnDisabled, errorShown, cageVars>>

\* handleMiddleClick on a node
MiddleClickNode(node) ==
  /\ Commit(editorDeleteNode(Cur, node), "deleteNode")
  /\ UNCHANGED <<sideVars, elVars, inflight, loading, analyzeBtnDisabled, errorShown, cageVars>>

\* keydown Backspace with a selected node
Backspace ==
  /\ selectedNode # null
  /\ Commit(editorDeleteNode(Cur, selectedNode), "deleteNode")
  /\ UNCHANGED <<sideVars, elVars, inflight, loading, analyzeBtnDisabled, errorShown, cageVars>>

\* handleDoubleClick on empty canvas
DoubleClickEmpty ==
  /\ canAllocate(Cur, 1)
  /\ Commit(editorAddNode(Cur), "ui")
  /\ UNCHANGED <<sideVars, elVars, inflight, loading, analyzeBtnDisabled, errorShown, cageVars>>

\* input event of #graphInput
TextInput(text) ==
  /\ Cardinality(FreeRefs([Cur EXCEPT !.nodes = <<>>, !.sel = null]))
       >= Len(fromEdgeListIds(text))
  /\ Commit([loadFromEdgeList(Cur, text) EXCEPT !.input = text], "ui")
  /\ UNCHANGED <<sideVars, elVars, inflight, loading, analyzeBtnDisabled, errorShown, cageVars>>

\* clearCanvas
ClearCanvas ==
  /\ Commit(editorClear(Cur), "ui")
  /\ UNCHANGED <<sideVars, elVars, inflight, loading, analyzeBtnDisabled, errorShown, cageVars>>

(***************************************************************************)
(* Degree controller: analyzeGraph / analyzeAllNodes                       *)
(***************************************************************************)
\* analyzeGraph up to the fetch of analyzeAllNodes
analyzeGraph(limit) ==
  LET formattedGraph == formatGraphInput(graphInput)
  IN /\ graphInput' = formattedGraph
     /\ fmtIn' = <<>>
     /\ removedNode' = null /\ hadPrediction' = FALSE /\ lastPredictions' = <<>>
     /\ errorShown' = FALSE
     /\ IF \E r \in Range(nodes) : hasPrediction(Cur, r)
        THEN UNCHANGED <<inflight, loading, analyzeBtnDisabled>>
        ELSE IF Len(nodes) = 0
        THEN /\ loading' = FALSE /\ analyzeBtnDisabled' = FALSE
             /\ UNCHANGED inflight
        ELSE /\ Len(inflight) < limit
             /\ inflight' = Append(inflight, formattedGraph)
             /\ loading' = TRUE /\ analyzeBtnDisabled' = TRUE
     /\ UNCHANGED <<sideVars, elVars, graphVars, uiVars, cageVars>>

\* the 100 ms timeout of triggerAnalyze fires
TimerFire ==
  /\ timers > 0
  /\ timers' = timers - 1
  /\ lastOp' = "ctl"
  /\ analyzeGraph(MaxInflight)

\* click on #analyzeBtn
AnalyzeClick ==
  /\ ~analyzeBtnDisabled
  /\ lastOp' = "ctl"
  /\ UNCHANGED timers
  /\ analyzeGraph(MaxInflight)

\* analyzeAllNodes after the fetch: response.ok with predictions, ids the
\* node_id values of data.predictions
ResponseOk(i, ids) ==
  /\ inflight' = removeAt(inflight, i)
  /\ LET E == graphUpdatePredictions(Cur, ids, inflight[i])
     IN pred' = E.pred
  /\ loading' = FALSE /\ analyzeBtnDisabled' = FALSE
  /\ lastOp' = "ctl"
  /\ removedNode' = null /\ hadPrediction' = FALSE /\ lastPredictions' = <<>>
  /\ UNCHANGED <<sideVars, textVars, elVars, nodes, nid, nbrs, fixed, uiVars, timers,
                 errorShown, cageVars>>

\* analyzeAllNodes after the fetch: rejection, or a response that is not ok
ResponseFail(i) ==
  /\ inflight' = removeAt(inflight, i)
  /\ loading' = FALSE /\ analyzeBtnDisabled' = FALSE
  /\ lastOp' = "analyzeFailed"
  /\ removedNode' = null /\ hadPrediction' = FALSE /\ lastPredictions' = <<>>
  /\ UNCHANGED <<sideVars, textVars, elVars, graphVars, uiVars, timers, errorShown, cageVars>>

\* texts typed into the text box beside the editor
EditorTexts ==
  {<<>>, <<<<JunkTok>>>>, <<<<Tok(0), Tok(1)>>>>, <<<<Tok(1)>>, <<Tok(0), Tok(0)>>>>}

\* The degree page: the editor driven with the right and middle buttons, the
\* double click, the text box and the clear button, and the controller with
\* its timers and requests.
Next ==
  \/ \E node \in Range(nodes) : RightClickNode(node)
  \/ RightClickEmpty
  \/ \E node \in Range(nodes) : MiddleClickNode(node)
  \/ DoubleClickEmpty
  \/ \E text \in EditorTexts : TextInput(text)
  \/ ClearCanvas
  \/ TimerFire
  \/ AnalyzeClick
  \/ \E i \in 1..Len(inflight), ids \in SUBSET Ids : ResponseOk(i, ids)
  \/ \E i \in 1..Len(inflight) : ResponseFail(i)

Spec == Init /\ [][Next]_vars

\* The degree page driven with the double click, the middle button and the
\* analyze button only, with analysis requests overlapping.
OverlapTimerFire ==
  /\ timers > 0
  /\ timers' = timers - 1
  /\ lastOp' = "ctl"
  /\ analyzeGraph(MaxOverlap)

OverlapAnalyzeClick ==
  /\ ~analyzeBtnDisabled
  /\ lastOp' = "ctl"
  /\ UNCHANGED timers
  /\ analyzeGraph(MaxOverlap)

NextOverlap ==
  \/ \E node \in Range(nodes) : MiddleClickNode(node)
  \/ DoubleClickEmpty
  \/ OverlapTimerFire
  \/ OverlapAnalyzeClick
  \/ \E i \in 1..Len(inflight), ids \in SUBSET Ids : ResponseOk(i, ids)
  \/ \E i \in 1..Len(inflight) : ResponseFail(i)

SpecOverlap == Init /\ [][NextOverlap]_vars

\* The editor alone, on a page that defines no window.analyzeGraph: the
\* callback of triggerAnalyze's timeout finds nothing to call.
TimerFireNoAnalyze ==
  /\ timers > 0
  /\ timers' = timers - 1
  /\ removedNode' = null /\ hadPrediction' = FALSE /\ lastPredictions' = <<>>
  /\ lastOp' = "ctl"
  /\ UNCHANGED <<sideVars, textVars, elVars, graphVars, uiVars, inflight, loading,
                 analyzeBtnDisabled, errorShown, cageVars>>

NextEditor ==
  \/ \E node \in Range(nodes) : LeftClickNode(node)
  \/ LeftClickEmpty
  \/ LeftRelease
  \/ \E node \in Range(nodes) : RightClickNode(node)
  \/ RightClickEmpty
  \/ \E node \in Range(nodes) : MiddleClickNode(node)
  \/ Backspace
  \/ DoubleClickEmpty
  \/ \E text \in EditorTexts : TextInput(text)
  \/ ClearCanvas
  \/ TimerFireNoAnalyze

SpecEditor == Init /\ [][NextEditor]_vars

\* The editor driven with the pointer alone, from the empty canvas
NextPointer ==
  \/ \E node \in Range(nodes) : LeftClickNode(node)
  \/ LeftClickEmpty
  \/ LeftRelease
  \/ \E node \in Range(nodes) : RightClickNode(node)
  \/ RightClickEmpty
  \/ \E node \in Range(nodes) : MiddleClickNode(node)
  \/ DoubleClickEmpty
  \/ TimerFireNoAnalyze

SpecPointer == Init /\ [][NextPointer]_vars

\* InteractiveGraphEditor.updatePredictions called with predictions for the
\* node ids of ids, computed for the graph as it is
EditorUpdatePredictions(ids) ==
  /\ pred' = graphUpdatePredictions(Cur, ids, toEdgeList(Cur)).pred
  /\ hadPrediction' = (\E r \in Range(nodes) : pred[r] # NoPrediction)
  /\ removedNode' = null
  /\ lastPredictions' = <<>>
  /\ lastOp' = "editorUpdatePredictions"
  /\ UNCHANGED <<sideVars, textVars, elVars, nodes, nid, nbrs, fixed, uiVars, ctlVars, cageVars>>

\* The editor driven with the pointer actions that change the graph, while
\* predictions arrive
NextAnnotate ==
  \/ edgeStart # null /\ \E node \in Range(nodes) : LeftClickNode(node)
  \/ edgeStart # null /\ LeftClickEmpty
  \/ \E node \in Range(nodes) : RightClickNode(node)
  \/ \E node \in Range(nodes) : MiddleClickNode(node)
  \/ DoubleClickEmpty
  \/ TimerFireNoAnalyze
  \/ \E ids \in SUBSET Ids : EditorUpdatePredictions(ids)

SpecAnnotate == Init /\ [][NextAnnotate]_vars

\* analyzeAllNodes after the fetch: a successful response, with a prediction
\* for every node of the graph that was sent
ResponseOkAll(i) == ResponseOk(i, Range(fromEdgeListIds(inflight[i])))

\* The degree page driven with the double click and the middle button; every
\* timeout fires and every request is answered successfully
Edit ==
  \/ \E node \in Range(nodes) : MiddleClickNode(node)
  \/ DoubleClickEmpty
NextLive ==
  \/ Edit
  \/ TimerFire
  \/ \E i \in 1..Len(inflight) : ResponseOkAll(i)

SpecLive ==
  /\ Init /\ [][NextLive]_vars
  /\ WF_vars(TimerFire)
  /\ WF_vars(\E i \in 1..Len(inflight) : ResponseOkAll(i))

(***************************************************************************)
(* The adjacency-list Graph class driven through its own methods;          *)
(* graphInput holds the text last given to fromEdgeList or returned by     *)
(* toEdgeList.                                                             *)
(***************************************************************************)
AdjFromEdgeList(text) ==
  /\ Cardinality(Refs) >= Len(fromEdgeListIds(text))
  /\ Commit([graphFromEdgeList(Cur, text) EXCEPT !.input = text], "load")
  /\ UNCHANGED <<sideVars, elVars, inflight, loading, analyzeBtnDisabled, errorShown, cageVars>>

AdjAddNode ==
  /\ FreeRefs(Cur) # {}
  /\ Commit(updateGraphInput(graphAddNode(Cur)), "addNode")
  /\ UNCHANGED <<sideVars, elVars, inflight, loading, analyzeBtnDisabled, errorShown, cageVars>>

AdjRemoveNode(node) ==
  /\ Commit(updateGraphInput(graphRemoveNode(Cur, node)), "deleteNode")
  /\ UNCHANGED <<sideVars, elVars, inflight, loading, analyzeBtnDisabled, errorShown, cageVars>>

AdjAddEdge(a, b) ==
  /\ Commit(updateGraphInput(graphAddEdge(Cur, a, b)), "addEdge")
  /\ UNCHANGED <<sideVars, elVars, inflight, loading, analyzeBtnDisabled, errorShown, cageVars>>

NextAdj ==
  \/ \E text \in Edits(graphInput) : AdjFromEdgeList(text)
  \/ AdjAddNode
  \/ \E node \in Range(nodes) : AdjRemoveNode(node)
  \/ \E a \in Range(nodes), b \in Range(nodes) : AdjAddEdge(a, b)

SpecAdj == Init /\ [][NextAdj]_vars

\* Graph.removeEdge and Graph.clear called on their own
AdjRemoveEdge(a, b) ==
  /\ Commit(updateGraphInput(graphRemoveEdge(Cur, a, b)), "removeEdge")
  /\ UNCHANGED <<sideVars, elVars, inflight, loading, analyzeBtnDisabled, errorShown, cageVars>>

AdjClear ==
  /\ Commit(updateGraphInput(graphClear(Cur)), "clear")
  /\ UNCHANGED <<sideVars, elVars, inflight, loading, analyzeBtnDisabled, errorShown, cageVars>>

\* the six operations of Graph, called with nodes of the graph
GraphTexts ==
  {<<<<Tok(0), Tok(1)>>>>, <<<<Tok(0), Tok(1)>>, <<Tok(1), Tok(0)>>>>,
   <<<<Tok(1), Tok(1)>>, <<Tok(0), Tok(1)>>, <<Tok(0), Tok(1)>>>>, <<<<Tok(0)>>, <<Tok(1)>>>>,
   <<<<Tok(1), Tok(2)>>>>, <<<<Tok(2), Tok(0)>>>>, <<<<Tok(2), Tok(2)>>>>, <<<<Tok(1)>>>>}
GraphArgs == Range(nodes)
NextGraph ==
  \/ \E text \in GraphTexts : AdjFromEdgeList(text)
  \/ Len(nodes) < MaxNodes /\ AdjAddNode
  \/ \E node \in GraphArgs : AdjRemoveNode(node)
  \/ \E a \in GraphArgs, b \in GraphArgs : AdjAddEdge(a, b)
  \/ \E a \in GraphArgs, b \in GraphArgs : AdjRemoveEdge(a, b)
  \/ AdjClear

SpecGraph == Init /\ [][NextGraph]_vars

\* The same Graph driven with fromEdgeList, addNode and removeNode only
NextIds ==
  \/ \E text \in Edits(graphInput) : AdjFromEdgeList(text)
  \/ AdjAddNode
  \/ \E node \in Range(nodes) : AdjRemoveNode(node)

SpecIds == Init /\ [][NextIds]_vars

\* Texts handed to Graph.fromEdgeList line by line: ids alone on a line (one
\* of them "-1", one of 22 digits), edge lines in both orders, a self-loop,
\* an edge to "-1", a blank line, and lines whose first or second part is no
\* integer ("1x 2", "a 2", "0 a")
LoadLines ==
  {<<Tok(-1)>>, <<Tok(0)>>, <<Tok(MaxId)>>, <<HugeTok>>,
   <<Tok(0), Tok(1)>>, <<Tok(1), Tok(0)>>, <<Tok(1), Tok(1)>>, <<Tok(-1), Tok(0)>>,
   <<IntxTok(1), Tok(2)>>, <<JunkTok, Tok(2)>>, <<Tok(0), JunkTok>>, <<>>}
LoadEdits(text) ==
  {Append(text, line) : line \in IF Len(text) < MaxLines THEN LoadLines ELSE {}}
  \cup {<<>>}

\* the Graph driven with fromEdgeList alone
NextLoad == \E text \in LoadEdits(graphInput) : AdjFromEdgeList(text)

SpecLoad == Init /\ [][NextLoad]_vars

\* The records of one response: node ids 0 and 1, predicted degrees 0 and 1,
\* true degree 1
Degrees == {0, 1}
PredictionRecords == [nodeId : {0, 1}, predicted : Degrees, actual : {1}]
PredictionLists == UNION {[1..n -> PredictionRecords] : n \in 0..MaxRecords}

\* Graph.updatePredictions called on the graph
UpdatePredictionList(predictions) ==
  /\ pred' = graphUpdatePredictionList(Cur, predictions).pred
  /\ hadPrediction' = (\E r \in Range(nodes) : pred[r] # NoPrediction)
  /\ removedNode' = null
  /\ lastPredictions' = predictions
  /\ lastOp' = "updatePredictions"
  /\ UNCHANGED <<sideVars, textVars, elVars, nodes, nid, nbrs, fixed, uiVars, ctlVars, cageVars>>

\* The Graph driven with addNode, removeNode and updatePredictions
NextPredict ==
  \/ Len(nodes) < MaxNodes /\ AdjAddNode
  \/ \E node \in Range(nodes) : AdjRemoveNode(node)
  \/ \E predictions \in PredictionLists : UpdatePredictionList(predictions)

SpecPredict == Init /\ [][NextPredict]_vars

(***************************************************************************)
(* Cage controller (frontend/js/cage/app.js)                               *)
(***************************************************************************)
\* the controller's buttons, panel and globals as a record
CageCur ==
  [generateBtnDisabled |-> generateBtnDisabled, stopBtnDisabled |-> stopBtnDisabled,
   statusDisplay |-> statusDisplay, currentSessionId |-> currentSessionId,
   pollingInterval |-> pollingInterval, intervals |-> intervals]

CageCommit(C) ==
  /\ generateBtnDisabled' = C.generateBtnDisabled
  /\ stopBtnDisabled' = C.stopBtnDisabled
  /\ statusDisplay' = C.statusDisplay
  /\ currentSessionId' = C.currentSessionId
  /\ pollingInterval' = C.pollingInterval
  /\ intervals' = C.intervals

\* what the last handler read, alerted, sent and received
CageLast(in, al, sent, st) ==
  startIn' = in /\ alerted' = al /\ requestSent' = sent /\ lastStatus' = st

\* the values typed into #degreeK and #girthG, and the status objects and
\* current_graph texts the server answers a poll with
FieldValues == {Tok(n) : n \in 1..3} \cup {EmptyTok, JunkTok}
CageGraphs == {<<>>, <<<<Tok(0), Tok(1)>>>>}
Statuses ==
  [is_complete : BOOLEAN, success : BOOLEAN, current_graph : CageGraphs]

\* stopPolling that drops the handle without clearInterval
stopPollingNoClear(C) ==
  IF C.pollingInterval # null THEN [C EXCEPT !.pollingInterval = null] ELSE C

\* stopPolling: clearInterval(pollingInterval); pollingInterval = null
stopPolling(C) ==
  IF C.pollingInterval # null
  THEN [C EXCEPT !.pollingInterval = null, !.intervals = @ \ {C.pollingInterval}]
  ELSE C

\* startPolling: the interval gets the number of the session it polls for
startPolling(C) ==
  [stopPolling(C) EXCEPT !.pollingInterval = C.currentSessionId,
                         !.intervals = @ \cup {C.currentSessionId}]

resetButtons(C) == [C EXCEPT !.generateBtnDisabled = FALSE, !.stopBtnDisabled = TRUE]

showError(C) == [C EXCEPT !.statusDisplay = <<"error">>]

showSuccess(C) == [C EXCEPT !.statusDisplay = Append(@, "success")]

\* updateStatus: the panel, and the canvas
updateStatus(C, status) ==
  [C EXCEPT !.statusDisplay = IF status.is_complete THEN <<"status">>
                              ELSE <<"status", "generating">>]
updateStatusGraph(E, status) ==
  IF status.current_graph # <<>> THEN loadFromEdgeList(E, status.current_graph) ELSE E

\* the interval callback after an ok status response that skips resetButtons
pollStatusKeepsButtons(C, status) ==
  LET U == updateStatus(C, status)
  IN IF status.is_complete
     THEN IF status.success THEN showSuccess(stopPolling(U)) ELSE showError(stopPolling(U))
     ELSE U

\* the interval callback after an ok status response
pollStatus(C, status) ==
  LET U == updateStatus(C, status)
  IN IF status.is_complete
     THEN LET R == resetButtons(stopPolling(U))
          IN IF status.success THEN showSuccess(R) ELSE showError(R)
     ELSE U

\* the interval callback's catch block
pollCatch(C) == resetButtons(stopPolling(C))

\* click on #generateBtn: startGeneration up to the fetch
StartGenerationUpTo(limit, kValue, gValue) ==
  /\ ~generateBtnDisabled
  /\ LET k == parseInt(kValue)
         g == parseInt(gValue)
     IN IF (~k.nan /\ k.v < 2) \/ (~g.nan /\ g.v < 3)
        THEN /\ CageLast(<<kValue, gValue>>, TRUE, FALSE, NoStatus)
             /\ UNCHANGED <<cageUi, starts, stopFinished>>
        ELSE /\ sessions + Len(starts) < limit /\ Len(starts) < MaxStarts
             /\ CageCommit([CageCur EXCEPT !.generateBtnDisabled = TRUE,
                                           !.stopBtnDisabled = FALSE])
             /\ starts' = Append(starts, <<k, g>>)
             /\ CageLast(<<kValue, gValue>>, FALSE, TRUE, NoStatus)
             /\ stopFinished' = FALSE
  /\ lastOp' = "startGeneration"
  /\ UNCHANGED <<sideVars, textVars, elVars, graphVars, uiVars, ctlVars, sessions, polls, stops,
                 removedNode, hadPrediction, lastPredictions>>

StartGeneration(kValue, gValue) == StartGenerationUpTo(MaxSessions, kValue, gValue)

\* startGeneration after the fetch: an ok response with a new session_id
StartResponseOk(i) ==
  /\ starts' = removeAt(starts, i)
  /\ sessions' = sessions + 1
  /\ CageCommit(startPolling([CageCur EXCEPT !.currentSessionId = sessions + 1]))
  /\ CageLast(<<>>, FALSE, FALSE, NoStatus)
  /\ stopFinished' = FALSE
  /\ lastOp' = "startResponse"
  /\ UNCHANGED <<sideVars, textVars, elVars, graphVars, uiVars, ctlVars, polls, stops, removedNode, hadPrediction, lastPredictions>>

\* startGeneration after the fetch: rejection, or a response that is not ok
StartResponseFail(i) ==
  /\ starts' = removeAt(starts, i)
  /\ CageCommit(resetButtons(showError(CageCur)))
  /\ CageLast(<<>>, FALSE, FALSE, NoStatus)
  /\ lastOp' = "startFailed"
  /\ UNCHANGED <<sideVars, textVars, elVars, graphVars, uiVars, ctlVars, sessions, polls, stops,
                 stopFinished, removedNode, hadPrediction, lastPredictions>>

\* the interval callback up to the fetch
PollTick ==
  /\ pollingInterval # null
  /\ IF currentSessionId = null
     THEN CageCommit(stopPolling(CageCur)) /\ UNCHANGED polls
     ELSE /\ Len(polls) < MaxPolls
          /\ polls' = Append(polls, currentSessionId)
          /\ UNCHANGED cageUi
  /\ CageLast(<<>>, FALSE, FALSE, NoStatus)
  /\ lastOp' = "pollTick"
  /\ UNCHANGED <<sideVars, textVars, elVars, graphVars, uiVars, ctlVars, sessions, starts, stops,
                 stopFinished, removedNode, hadPrediction, lastPredictions>>

\* the interval callback after the fetch: an ok response with a status
PollResponse(i, status) ==
  /\ polls' = removeAt(polls, i)
  /\ CageCommit(pollStatus(CageCur, status))
  /\ Commit(updateStatusGraph(Cur, status), "pollResponse")
  /\ CageLast(<<>>, FALSE, FALSE, [is_complete |-> status.is_complete,
                                   success |-> status.success])
  /\ UNCHANGED <<sideVars, elVars, inflight, loading, analyzeBtnDisabled, errorShown, sessions,
                 starts, stops, stopFinished>>

\* the interval callback after the fetch: rejection, or a response that is
\* not ok (an unknown session id)
PollFail(i) ==
  /\ polls' = removeAt(polls, i)
  /\ CageCommit(pollCatch(CageCur))
  /\ CageLast(<<>>, FALSE, FALSE, NoStatus)
  /\ lastOp' = "pollFailed"
  /\ UNCHANGED <<sideVars, textVars, elVars, graphVars, uiVars, ctlVars, sessions, starts, stops,
                 stopFinished, removedNode, hadPrediction, lastPredictions>>

\* click on #stopBtn: stopGeneration up to the status fetch
StopGeneration ==
  /\ ~stopBtnDisabled
  /\ IF currentSessionId = null
     THEN UNCHANGED stops
     ELSE /\ Len(stops) < MaxStops
          /\ stops' = Append(stops, [awaits |-> "status", hasStatus |-> FALSE])
  /\ CageLast(<<>>, FALSE, FALSE, NoStatus)
  /\ lastOp' = "stopGeneration"
  /\ UNCHANGED <<sideVars, textVars, elVars, graphVars, uiVars, ctlVars, cageUi, sessions, starts,
                 polls, stopFinished, removedNode, hadPrediction, lastPredictions>>

\* stopGeneration after the status fetch: a status object ("status"), the
\* JSON error body of a response that is not ok ("error"), or a rejection
StopStatusResponse(i, outcome) ==
  /\ stops[i].awaits = "status"
  /\ stops' = IF outcome = "reject" THEN removeAt(stops, i)
              ELSE [stops EXCEPT ![i] = [awaits |-> "stop", hasStatus |-> outcome = "status"]]
  /\ CageLast(<<>>, FALSE, FALSE, NoStatus)
  /\ lastOp' = "stopStatus"
  /\ UNCHANGED <<sideVars, textVars, elVars, graphVars, uiVars, ctlVars, cageUi, sessions, starts,
                 polls, stopFinished, removedNode, hadPrediction, lastPredictions>>

\* stopGeneration after the stop fetch: with a response of any status code
\* stopPolling, resetButtons and the "Stopped by user" panel, which throws
\* on status.elapsed_time.toFixed when the status was an error body
StopStopResponse(i, resolved) ==
  /\ stops[i].awaits = "stop"
  /\ stops' = removeAt(stops, i)
  /\ IF resolved
     THEN LET R == resetButtons(stopPolling(CageCur))
          IN IF stops[i].hasStatus
             THEN /\ CageCommit([R EXCEPT !.statusDisplay = <<"status", "stopped">>])
                  /\ stopFinished' = TRUE
             ELSE CageCommit(R) /\ UNCHANGED stopFinished
     ELSE UNCHANGED <<cageUi, stopFinished>>
  /\ CageLast(<<>>, FALSE, FALSE, NoStatus)
  /\ lastOp' = "stopDone"
  /\ UNCHANGED <<sideVars, textVars, elVars, graphVars, uiVars, ctlVars, sessions, starts, polls,
                 removedNode, hadPrediction, lastPredictions>>

NextCage ==
  \/ \E kValue \in FieldValues, gValue \in FieldValues : StartGeneration(kValue, gValue)
  \/ \E i \in 1..Len(starts) : StartResponseOk(i)
  \/ \E i \in 1..Len(starts) : StartResponseFail(i)
  \/ PollTick
  \/ \E i \in 1..Len(polls), status \in Statuses : PollResponse(i, status)
  \/ \E i \in 1..Len(polls) : PollFail(i)
  \/ StopGeneration
  \/ \E i \in 1..Len(stops), outcome \in {"status", "error", "reject"} :
       StopStatusResponse(i, outcome)
  \/ \E i \in 1..Len(stops), resolved \in BOOLEAN : StopStopResponse(i, resolved)

SpecCage == Init /\ [][NextCage]_vars

\* beforeunload: stopPolling
PageUnload ==
  /\ CageCommit(stopPolling(CageCur))
  /\ CageLast(<<>>, FALSE, FALSE, NoStatus)
  /\ lastOp' = "beforeunload"
  /\ UNCHANGED <<sideVars, textVars, elVars, graphVars, uiVars, ctlVars, sessions, starts, polls,
                 stops, stopFinished, removedNode, hadPrediction, lastPredictions>>

\* the cage page over two sessions, one started after the other
MaxRestartSessions == 2
RestartFieldValues == {Tok(1), Tok(3)}
RestartStatuses == [is_complete : BOOLEAN, success : {TRUE}, current_graph : {<<>>}]
NextPolling ==
  \/ \E kValue \in RestartFieldValues :
       StartGenerationUpTo(MaxRestartSessions, kValue, Tok(3))
  \/ \E i \in 1..Len(starts) : StartResponseOk(i)
  \/ \E i \in 1..Len(starts) : StartResponseFail(i)
  \/ PollTick
  \/ \E i \in 1..Len(polls), status \in RestartStatuses : PollResponse(i, status)
  \/ \E i \in 1..Len(polls) : PollFail(i)
  \/ StopGeneration
  \/ \E i \in 1..Len(stops), outcome \in {"status", "error", "reject"} :
       StopStatusResponse(i, outcome)
  \/ \E i \in 1..Len(stops), resolved \in BOOLEAN : StopStopResponse(i, resolved)
  \/ PageUnload

SpecPolling == Init /\ [][NextPolling]_vars

(***************************************************************************)
(* PhysicsEngine.step on a layout the user drags (frontend/js/editor/       *)
(* PhysicsEngine.js behind InteractiveGraphEditor).  The nodes lie on one   *)
(* horizontal line and the pointer moves along it, so every distance is the *)
(* absolute difference of two x.  Coordinates are exact: one pixel is       *)
(* PxScale units, and the layouts start on whole multiples of ten pixels,   *)
(* so each of the MaxFrames divisions by ten (springConstant 0.1) is exact. *)
(***************************************************************************)
RECURSIVE pow10(_)
pow10(n) == IF n = 0 THEN 1 ELSE 10 * pow10(n - 1)
PxScale == pow10(MaxFrames)

idealEdgeLength == 300 * PxScale
idealNodeDistance == 300 * PxScale

Abs(a) == IF a < 0 THEN -a ELSE a
\* Math.sqrt(dx * dx + dy * dy) of a horizontal or a vertical difference
distanceOf(dx, dy) == IF dy = 0 THEN Abs(dx) ELSE Abs(dy)

\* one term of xForce / yForce: [nan, x, y]
NoForce == [nan |-> FALSE, x |-> 0, y |-> 0]
NaNForce == [nan |-> TRUE, x |-> 0, y |-> 0]
addForce(f, g) ==
  IF f.nan \/ g.nan THEN NaNForce ELSE [nan |-> FALSE, x |-> f.x + g.x, y |-> f.y + g.y]

\* the spring term of `other` on `node` (connected.forEach)
springTerm(E, P, node, other) ==
  IF E.nid[other] = E.nid[node] THEN NoForce
  ELSE IF P.x[node] = NaN \/ P.x[other] = NaN \/ P.y[node] = NaN \/ P.y[other] = NaN
  THEN NaNForce
  ELSE LET dx == P.x[other][2] - P.x[node][2]
           dy == P.y[other][2] - P.y[node][2]
           distance == distanceOf(dx, dy)
           relative == distance - idealEdgeLength
           force == relative \div 10
       IN IF distance * 10 < PxScale THEN NoForce
          ELSE [nan |-> FALSE, x |-> (dx \div distance) * force,
                               y |-> (dy \div distance) * force]

\* the term of an unconnected `other` on `node` (this.graph.nodes.forEach)
repulsiveTerm(E, P, node, other) ==
  IF E.nid[other] = E.nid[node] THEN NoForce
  ELSE IF other \in Range(E.nbrs[node]) THEN NoForce
  ELSE IF P.x[node] = NaN \/ P.x[other] = NaN \/ P.y[node] = NaN \/ P.y[other] = NaN
  THEN NaNForce
  ELSE LET dx == P.x[other][2] - P.x[node][2]
           dy == P.y[other][2] - P.y[node][2]
           distance == distanceOf(dx, dy)
           relative == distance - idealNodeDistance
           force == relative \div 10
       IN IF distance > idealNodeDistance * 3 THEN NoForce
          ELSE IF distance = 0 THEN NaNForce
          ELSE [nan |-> FALSE, x |-> (dx \div distance) * force,
                               y |-> (dy \div distance) * force]

RECURSIVE springForce(_, _, _, _)
springForce(E, P, node, others) ==
  IF others = <<>> THEN NoForce
  ELSE addForce(springTerm(E, P, node, Head(others)), springForce(E, P, node, Tail(others)))
RECURSIVE repulsiveForce(_, _, _, _)
repulsiveForce(E, P, node, others) ==
  IF others = <<>> THEN NoForce
  ELSE addForce(repulsiveTerm(E, P, node, Head(others)),
                repulsiveForce(E, P, node, Tail(others)))

\* Math.max(-5, Math.min(5, v))
clamp5(v) == Max2(-5 * PxScale, Min2(5 * PxScale, v))
moved(c, nan, d) == IF nan \/ c = NaN THEN NaN ELSE Num(c[2] + clamp5(d))

\* the body of the forEach of step for one node: node.x += ..., node.y += ...
stepNode(E, P, node, granularity) ==
  LET f == addForce(springForce(E, P, node, E.nbrs[node]),
                    repulsiveForce(E, P, node, E.nodes))
  IN [x |-> [P.x EXCEPT ![node] = moved(@, f.nan, f.x * granularity)],
      y |-> [P.y EXCEPT ![node] = moved(@, f.nan, f.y * granularity)]]

\* the forEach of step: the nodes in the order of graph.nodes, each one seeing
\* the positions the earlier ones were moved to
RECURSIVE stepNodes(_, _, _, _)
stepNodes(E, P, ns, granularity) ==
  IF ns = <<>> THEN P
  ELSE stepNodes(E, stepNode(E, P, Head(ns), granularity), Tail(ns), granularity)

\* PhysicsEngine.step with deltaTime = 100 * granularity ms
step(E, P, granularity) ==
  IF Len(E.nodes) = 0 THEN P ELSE stepNodes(E, P, E.nodes, granularity)

\* x of the places nodes are dragged to, in pixels
LayoutXs == {0, 280, 1000}
Granularities == {0, 1, 2}

\* two nodes, 0 and 1, loaded from "0 1" or from "0\n1" and dragged apart
InitPhysics ==
  /\ \E text \in {<<<<Tok(0), Tok(1)>>>>, <<<<Tok(0)>>, <<Tok(1)>>>>} :
       LET E == loadFromEdgeList([nodes |-> <<>>, nid |-> [r \in Refs |-> 0],
                                  nbrs |-> [r \in Refs |-> <<>>],
                                  pred |-> [r \in Refs |-> NoPrediction],
                                  fixed |-> [r \in Refs |-> FALSE],
                                  sel |-> null, drag |-> null, es |-> null,
                                  pan |-> FALSE, input |-> text, timers |-> 0,
                                  removed |-> null], text)
       IN /\ graphInput = text /\ fmtIn = <<>>
          /\ nodes = E.nodes /\ nid = E.nid /\ nbrs = E.nbrs /\ pred = E.pred
          /\ fixed = E.fixed
  /\ \E a \in LayoutXs, b \in LayoutXs :
       /\ a # b
       /\ posX = [r \in Refs |-> IF r = 1 THEN Num(a * PxScale)
                                 ELSE IF r = 2 THEN Num(b * PxScale) ELSE Num(0)]
  /\ posY = [r \in Refs |-> Num(0)]
  /\ frames = 0
  /\ physicsEnabled = TRUE /\ stepsRun = 0 /\ placedX = [r \in Refs |-> Num(0)]
  /\ velX = [r \in Refs |-> 0]
  /\ InitEL /\ InitUi /\ InitCtl /\ InitCage /\ InitSettings /\ InitConfig
  /\ removedNode = null /\ hadPrediction = FALSE /\ lastPredictions = <<>>
  /\ lastOp = "init"

\* handleMouseMove with the pointer at x on the line of the nodes
MouseMove(x) ==
  /\ ~panningCanvas
  /\ IF draggingNode # null
     THEN /\ posX' = [posX EXCEPT ![draggingNode] = Num(x * PxScale)]
          /\ posY' = [posY EXCEPT ![draggingNode] = Num(0)]
     ELSE UNCHANGED <<posX, posY>>
  /\ lastOp' = "mouseMove"
  /\ UNCHANGED <<textVars, elVars, graphVars, uiVars, ctlVars, cageVars, frames, settleVars,
                 settingsVars, configVars, removedNode, hadPrediction, lastPredictions>>

\* one animation frame: physics.step(width, height, deltaTime)
PhysicsStep(granularity) ==
  /\ frames < MaxFrames
  /\ frames' = frames + 1
  /\ LET P == step(Cur, [x |-> posX, y |-> posY], granularity)
     IN posX' = P.x /\ posY' = P.y
  /\ lastOp' = "physicsStep"
  /\ UNCHANGED <<textVars, elVars, graphVars, uiVars, ctlVars, cageVars, settingsVars, settleVars,
                 configVars, removedNode, hadPrediction, lastPredictions>>

NextPhysics ==
  \/ \E node \in Range(nodes) : LeftClickNode(node)
  \/ LeftRelease
  \/ \E x \in LayoutXs : MouseMove(x)
  \/ \E granularity \in Granularities : PhysicsStep(granularity)

SpecPhysics == InitPhysics /\ [][NextPhysics]_vars

\* preSettlePhysics(200), each step with deltaTime 16.67 ms: granularity
\* (16.67 / 1000) * 10, a sixth
SettleIterations == 200
SettleDivisor == 6
settleStepNode(E, P, node) ==
  LET f == CHOOSE g \in {addForce(springForce(E, P, node, E.nbrs[node]),
                                  repulsiveForce(E, P, node, E.nodes))} : TRUE
  IN [x |-> [P.x EXCEPT ![node] = moved(@, f.nan, f.x \div SettleDivisor)],
      y |-> [P.y EXCEPT ![node] = moved(@, f.nan, f.y \div SettleDivisor)]]
\* this.graph.nodes.forEach of step; each node sees the moves of the earlier ones
RECURSIVE settleStepNodes(_, _, _)
settleStepNodes(E, P, ns) ==
  IF ns = <<>> THEN P
  ELSE CHOOSE R \in {settleStepNodes(E, Q, Tail(ns)) : Q \in {settleStepNode(E, P, Head(ns))}} :
         TRUE

\* PhysicsEngine.step with its gate on physics.enabled; ran counts the calls
\* that got past the gate
settleStep(enabled, E, S) ==
  IF ~enabled \/ Len(E.nodes) = 0 THEN S
  ELSE [P |-> settleStepNodes(E, S.P, E.nodes), ran |-> S.ran + 1]
\* for (i = 0; i < iterations; i++) step(...), the iterations split in halves
RECURSIVE settleLoop(_, _, _, _)
settleLoop(enabled, E, S, iterations) ==
  IF iterations = 0 THEN S
  ELSE IF iterations = 1 THEN settleStep(enabled, E, S)
  ELSE CHOOSE R \in {settleLoop(enabled, E, T, iterations - (iterations \div 2)) :
                       T \in {settleLoop(enabled, E, S, iterations \div 2)}} : TRUE

\* preSettlePhysics that leaves physics.enabled as it finds it
preSettlePhysicsGated(enabled, E, P, iterations) ==
  settleLoop(enabled, E, [P |-> P, ran |-> 0], iterations) @@ [enabled |-> enabled]

\* preSettlePhysics: wasEnabled = enabled; enabled = true; the loop;
\* enabled = wasEnabled
preSettlePhysics(enabled, E, P, iterations) ==
  LET wasEnabled == enabled
  IN settleLoop(TRUE, E, [P |-> P, ran |-> 0], iterations) @@ [enabled |-> wasEnabled]

\* the jitter of fromEdgeList around the canvas centre, in pixels, and the
\* texts loaded
SettleJitters == {-5, -2, 0, 2, 5}
SettleTexts ==
  {<<>>, <<<<>>>>, <<<<Tok(0)>>>>, <<<<Tok(1)>>>>, <<<<Tok(0), Tok(1)>>>>, <<<<Tok(0)>>, <<Tok(1)>>>>}
CentreX == 400

\* loadFromEdgeList: fromEdgeList places the nodes, then preSettlePhysics(200)
\* when the graph has a node
LoadSettle(text, a, b) ==
  /\ edgeStart = null /\ draggingNode = null
  /\ \E E \in {renumber(collect(loadFromEdgeList(Cur, text)))} :
     \E P0 \in {[x |-> [r \in Refs |->
                          IF Len(E.nodes) >= 1 /\ r = E.nodes[1]
                          THEN Num((CentreX + a) * PxScale)
                          ELSE IF Len(E.nodes) >= 2 /\ r = E.nodes[2]
                          THEN Num((CentreX + b) * PxScale)
                          ELSE Num(0)],
                  y |-> [r \in Refs |-> Num(0)]]} :
     \E S \in {IF Len(E.nodes) > 0
                THEN preSettlePhysics(physicsEnabled, E, P0, SettleIterations)
                ELSE [P |-> P0, ran |-> 0, enabled |-> physicsEnabled]} :
        /\ Commit([E EXCEPT !.input = text], "loadSettle")
        /\ posX' = S.P.x /\ posY' = S.P.y
        /\ physicsEnabled' = S.enabled
        /\ stepsRun' = S.ran
        /\ placedX' = P0.x
  /\ UNCHANGED <<frames, velX, settingsVars, configVars, elVars, inflight, loading,
                 analyzeBtnDisabled, errorShown, cageVars>>

\* togglePhysics
TogglePhysics ==
  /\ physicsEnabled' = ~physicsEnabled
  /\ lastOp' = "togglePhysics"
  /\ UNCHANGED <<textVars, elVars, graphVars, uiVars, ctlVars, cageVars, posX, posY, frames,
                 stepsRun, placedX, velX, settingsVars, configVars, removedNode, hadPrediction,
                 lastPredictions>>

NextSettle ==
  \/ \E text \in SettleTexts, a \in SettleJitters, b \in SettleJitters :
       a < b /\ LoadSettle(text, a, b)
  \/ TogglePhysics

SpecSettle == Init /\ [][NextSettle]_vars

(***************************************************************************)
(* Generation settings dialog (window.openSettings, the range sliders,      *)
(* window.saveSettings, window.closeSettings of frontend/js/cage/app.js)    *)
(***************************************************************************)
\* the values the sliders are moved to
NodeValues == {Tok(0), Tok(5), Tok(12)}
ProbValues == {Tok(0), Tok(15), Tok(60)}

\* window.openSettings
OpenSettings ==
  /\ ~settingsModalShown
  /\ settingsModalShown' = TRUE
  /\ settingsAtOpen' = getGraphSettings(settingsFields)
  /\ CageLast(<<>>, FALSE, FALSE, NoStatus)
  /\ lastOp' = "openSettings"
  /\ UNCHANGED <<textVars, elVars, graphVars, uiVars, ctlVars, cageUi, cageNet,
                 stopFinished, physVars, configVars, cageSetVars, settingsFields, rangeDisplays, removedNode, hadPrediction, lastPredictions>>

\* input event of a .range-slider: the slider takes the value, updateRangeDisplays
SliderInput(field, value) ==
  /\ settingsModalShown
  /\ settingsFields' = [settingsFields EXCEPT ![field] = value]
  /\ rangeDisplays' = updateRangeDisplays(settingsFields')
  /\ CageLast(<<>>, FALSE, FALSE, NoStatus)
  /\ lastOp' = "sliderInput"
  /\ UNCHANGED <<textVars, elVars, graphVars, uiVars, ctlVars, cageUi, cageNet,
                 stopFinished, physVars, configVars, cageSetVars, settingsModalShown, settingsAtOpen, removedNode, hadPrediction, lastPredictions>>

\* window.saveSettings: updateRangeDisplays(); closeSettings()
SaveSettings ==
  /\ settingsModalShown
  /\ rangeDisplays' = updateRangeDisplays(settingsFields)
  /\ settingsModalShown' = FALSE
  /\ CageLast(<<>>, FALSE, FALSE, NoStatus)
  /\ lastOp' = "saveSettings"
  /\ UNCHANGED <<textVars, elVars, graphVars, uiVars, ctlVars, cageUi, cageNet,
                 stopFinished, physVars, configVars, cageSetVars, settingsFields, settingsAtOpen, removedNode, hadPrediction, lastPredictions>>

\* window.closeSettings
CloseSettings ==
  /\ settingsModalShown
  /\ settingsModalShown' = FALSE
  /\ CageLast(<<>>, FALSE, FALSE, NoStatus)
  /\ lastOp' = "closeSettings"
  /\ UNCHANGED <<textVars, elVars, graphVars, uiVars, ctlVars, cageUi, cageNet,
                 stopFinished, physVars, configVars, cageSetVars, settingsFields, rangeDisplays, settingsAtOpen,
                 removedNode, hadPrediction, lastPredictions>>

NextSettings ==
  \/ OpenSettings
  \/ \E value \in NodeValues : SliderInput("minNodes", value) \/ SliderInput("maxNodes", value)
  \/ \E value \in ProbValues : SliderInput("minProb", value) \/ SliderInput("maxProb", value)
  \/ SaveSettings
  \/ CloseSettings

SpecSettings == Init /\ [][NextSettings]_vars

(***************************************************************************)
(* The velocity-based PhysicsEngine of part_006 on the edge-list Graph,    *)
(* nodes on the horizontal line through the canvas centre; lengths in      *)
(* thousandths of a pixel                                                  *)
(***************************************************************************)
Milli == pow10(3)
MaxSpringSteps == 40
springLength == 100 * Milli
\* a / b rounded toward zero
divT(a, b) == IF a >= 0 THEN a \div b ELSE -((-a) \div b)
sign(a) == IF a > 0 THEN 1 ELSE IF a < 0 THEN -1 ELSE 0
\* the x of the node with id n
xOf(P, n) == P[n + 1][2]
\* Hooke: springStrength * (distance - springLength), springStrength 0.05;
\* fx of the edge, applied to fromNode and negated to toNode
edgeSpringFx(P, e) ==
  LET dx == xOf(P, e[2]) - xOf(P, e[1])
      distance == Abs(dx)
      force == divT(distance - springLength, 20)
  IN IF e[1] = e[2] \/ distance * 10 < Milli THEN 0 ELSE sign(dx) * force
RECURSIVE springFx(_, _, _)
springFx(P, edges, n) ==
  IF edges = <<>> THEN 0
  ELSE LET e == Head(edges)
           fx == edgeSpringFx(P, e)
       IN (IF e[1] = n THEN fx ELSE 0) + (IF e[2] = n THEN -fx ELSE 0)
          + springFx(P, Tail(edges), n)
\* Coulomb: repulsionStrength / distanceSq, repulsionStrength 3000; no force
\* below distanceSq 0.1
coulomb(distance) ==
  IF distance < 317 THEN 0
  ELSE IF distance < 1500 THEN ((300000000 \div distance) \div distance) * 10000
  ELSE ((300000000 \div distance) * 10000) \div distance
\* the pair loop: of every pair the first node gets -fx and the second fx
RECURSIVE repulsionFx(_, _, _)
repulsionFx(P, others, n) ==
  IF others = <<>> THEN 0
  ELSE LET m == Head(others)
           dx == xOf(P, m) - xOf(P, n)
       IN (IF m = n THEN 0 ELSE -sign(dx) * coulomb(Abs(dx))) + repulsionFx(P, Tail(others), n)
\* centeringStrength 0.001 * (centerX - node.x)
centeringFx(P, n) == divT(CentreX * Milli - xOf(P, n), 1000)
\* GraphNode.updatePosition(damping) with damping 0.85 and mass 1
updateVelocity(vx, fx) == divT((vx + fx) * 85, 100)
\* PhysicsEngine.step of part_006: [x, vx] of every node after the step
legacyStep(P, V, ns, edges) ==
  LET fx(n) == springFx(P, edges, n) + repulsionFx(P, ns, n) + centeringFx(P, n)
      v == [r \in Refs |-> IF r - 1 \in Range(ns) THEN updateVelocity(V[r], fx(r - 1)) ELSE V[r]]
  IN [x |-> [r \in Refs |-> IF r - 1 \in Range(ns) THEN Num(P[r][2] + v[r]) ELSE P[r]],
      vx |-> v]

\* two nodes joined by one edge, physics enabled, at rest at a separation
\* drawn from SpringStarts (pixels) around a midpoint left of the centre
SpringStarts == {50, 100, 150, 300}
SpringOffsets == {0, 40}
InitSpring ==
  /\ \E sep \in SpringStarts, off \in SpringOffsets :
       posX = [r \in Refs |-> IF r = 1 THEN Num((CentreX - off) * Milli)
                              ELSE IF r = 2 THEN Num((CentreX - off + sep) * Milli)
                              ELSE Num(0)]
  /\ posY = [r \in Refs |-> Num(0)]
  /\ frames = 0
  /\ physicsEnabled = TRUE /\ stepsRun = 0 /\ placedX = posX
  /\ velX = [r \in Refs |-> 0]
  /\ InitText /\ InitGraph /\ InitUi /\ InitCtl /\ InitCage /\ InitSettings /\ InitConfig
  /\ elNodes = <<0, 1>> /\ elEdges = ELaddEdge(<<>>, 0, 1)
  /\ removedNode = null /\ hadPrediction = FALSE /\ lastPredictions = <<>>
  /\ lastOp = "init"

\* one animation frame: physics.step
SpringStep ==
  /\ physicsEnabled /\ Len(elNodes) > 0
  /\ stepsRun < MaxSpringSteps
  /\ \E S \in {legacyStep(posX, velX, elNodes, elEdges)} :
       posX' = S.x /\ velX' = S.vx
  /\ stepsRun' = stepsRun + 1
  /\ lastOp' = "springStep"
  /\ UNCHANGED <<textVars, elVars, graphVars, uiVars, ctlVars, cageVars, posY, frames,
                 physicsEnabled, placedX, settingsVars, configVars, removedNode,
                 hadPrediction, lastPredictions>>

NextSpring == SpringStep

SpecSpring == InitSpring /\ [][NextSpring]_vars

\* the distance between the two nodes
separation == Abs(posX[2][2] - posX[1][2])

(***************************************************************************)
(* The settings dialog of the cage page and localStorage                   *)
(***************************************************************************)
\* what an earlier visit may have left under cageGeneratorSettings
GeneratorTypes == {"constructive", "randomwalk"}
IntervalValues == {Tok(100), Tok(300), Tok(1000)}
StoredRecord(g, p, e) == [generatorType |-> g, pollingInterval |-> p, enablePhysics |-> e]
StoredItems ==
  {NoItem,
   JsonText(StoredRecord(Undefined, Undefined, Undefined)),
   JsonText(StoredRecord(Str("randomwalk"), Undefined, Undefined)),
   JsonText(StoredRecord(Undefined, Num(1000), Undefined)),
   JsonText(StoredRecord(Undefined, Undefined, Bool(TRUE))),
   JsonText(StoredRecord(Str("constructive"), Num(100), Undefined)),
   JsonText(StoredRecord(Str("randomwalk"), Num(100), Bool(TRUE)))}
InitCageSettingsPage ==
  /\ cageScript \in CageScripts
  /\ cageStorage \in StoredItems
  /\ cageSettingsFields = [generatorType |-> "constructive", pollingInterval |-> Tok(300),
                           enablePhysics |-> FALSE]
  /\ cageSettingsRead = defaultSettings(cageScript)
  /\ settingsFields = [minNodes |-> Tok(5), maxNodes |-> Tok(12),
                       minProb |-> Tok(15), maxProb |-> Tok(60)]
  /\ rangeDisplays = updateRangeDisplays(settingsFields)
  /\ settingsModalShown = FALSE
  /\ settingsAtOpen = getGraphSettings(settingsFields)
  /\ InitText /\ InitEL /\ InitGraph /\ InitUi /\ InitCtl /\ InitCage /\ InitPhys /\ InitConfig
  /\ removedNode = null /\ hadPrediction = FALSE /\ lastPredictions = <<>>
  /\ lastOp = "init"

\* openSettings of the cage page
CageOpenSettings ==
  /\ ~settingsModalShown
  /\ LET settings == loadSettings(cageScript, cageStorage)
     IN /\ cageSettingsRead' = settings
        /\ cageSettingsFields' = fieldsOfSettings(cageScript, settings, cageSettingsFields)
  /\ settingsModalShown' = TRUE
  /\ lastOp' = "cageOpenSettings"
  /\ UNCHANGED <<textVars, elVars, graphVars, uiVars, ctlVars, cageVars, physVars, configVars,
                 cageScript, cageStorage, settingsFields, rangeDisplays, settingsAtOpen,
                 removedNode, hadPrediction, lastPredictions>>

\* the user picks a generator, moves the slider or ticks the checkbox
CageSettingsInput(field, value) ==
  /\ settingsModalShown
  /\ cageSettingsFields' = [cageSettingsFields EXCEPT ![field] = value]
  /\ lastOp' = "cageSettingsInput"
  /\ UNCHANGED <<textVars, elVars, graphVars, uiVars, ctlVars, cageVars, physVars, configVars,
                 cageScript, cageStorage, cageSettingsRead, settingsFields, rangeDisplays,
                 settingsModalShown, settingsAtOpen, removedNode, hadPrediction,
                 lastPredictions>>

\* saveSettings of the cage page: saveSettingsToStorage, (part_007) the physics
\* setting applied to the editor, closeSettings
CageSaveSettings ==
  /\ settingsModalShown
  /\ cageStorage' = JSONstringify(settingsOfDialog(cageScript, cageSettingsFields))
  /\ physicsEnabled' = IF cageScript = "part_007" THEN cageSettingsFields.enablePhysics
                       ELSE physicsEnabled
  /\ settingsModalShown' = FALSE
  /\ lastOp' = "cageSaveSettings"
  /\ UNCHANGED <<textVars, elVars, graphVars, uiVars, ctlVars, cageVars, posX, posY, frames,
                 stepsRun, placedX, velX, configVars, cageScript, cageSettingsFields,
                 cageSettingsRead, settingsFields, rangeDisplays, settingsAtOpen,
                 removedNode, hadPrediction, lastPredictions>>

\* const settings = loadSettings() of startGeneration and startPolling
CageLoadSettings ==
  /\ cageSettingsRead' = loadSettings(cageScript, cageStorage)
  /\ lastOp' = "cageLoadSettings"
  /\ UNCHANGED <<textVars, elVars, graphVars, uiVars, ctlVars, cageVars, physVars, configVars,
                 cageScript, cageStorage, cageSettingsFields, settingsFields, rangeDisplays,
                 settingsModalShown, settingsAtOpen, removedNode, hadPrediction,
                 lastPredictions>>

NextCageSettings ==
  \/ CageOpenSettings
  \/ \E value \in GeneratorTypes : CageSettingsInput("generatorType", value)
  \/ \E value \in IntervalValues : CageSettingsInput("pollingInterval", value)
  \/ \E value \in BOOLEAN : CageSettingsInput("enablePhysics", value)
  \/ CageSaveSettings
  \/ CageLoadSettings

SpecCageSettings == InitCageSettingsPage /\ [][NextCageSettings]_vars

(***************************************************************************)
(* Configuration load (frontend/js/shared/config.js, and the earlier        *)
(* config script kept in src/unnamed/part_001) followed by the controller   *)
(* script of the page                                                       *)
(***************************************************************************)
ConfigScripts == {"shared/config.js", "part_001"}
Pages == {"degree", "cage"}
\* what GET /api/config comes to: ok with apiBaseUrl, ok without it, ok with
\* a body that is no JSON, a status that is not ok, a rejected fetch
ConfigAnswers == {"okWithUrl", "okWithoutUrl", "okBadJson", "notOk", "rejected"}

\* loadConfig after the fetch: the value of API_BASE_URL and whether the
\* function throws
loadConfig(script, url, answer) ==
  IF script = "part_001"
  THEN [url |-> IF answer = "okWithUrl" THEN DeliveredUrl ELSE url, threw |-> FALSE]
  ELSE [url |-> url, threw |-> FALSE]
\* whether loadConfig assigns API_BASE_URL
loadConfigAssigns(script, answer) == script = "part_001" /\ answer = "okWithUrl"

InitConfigPage ==
  /\ InitText /\ InitEL /\ InitGraph /\ InitUi /\ InitCtl /\ InitCage
  /\ InitPhys /\ InitSettings
  /\ \E script \in ConfigScripts, pg \in Pages : InitConfigOf(script, pg)
  /\ removedNode = null /\ hadPrediction = FALSE /\ lastPredictions = <<>>
  /\ lastOp = "init"

\* the config script runs: the async IIFE calls loadConfig, which starts the
\* fetch and returns its promise
RunConfigScript ==
  /\ configLoad = "idle"
  /\ configLoad' = "fetching"
  /\ lastOp' = "configScript"
  /\ UNCHANGED <<textVars, elVars, graphVars, uiVars, ctlVars, cageVars, physVars,
                 settingsVars, configScript, page, API_BASE_URL, configAnswer,
                 configThrew, controllerStarted, urlUsed, assignedAfterStart,
                 removedNode, hadPrediction, lastPredictions>>

\* the fetch of loadConfig settles
ConfigResponse(answer) ==
  /\ configLoad = "fetching"
  /\ configLoad' = "done"
  /\ configAnswer' = answer
  /\ LET r == loadConfig(configScript, API_BASE_URL, answer)
     IN API_BASE_URL' = r.url /\ configThrew' = r.threw
  /\ assignedAfterStart' =
       (assignedAfterStart \/ (controllerStarted /\ loadConfigAssigns(configScript, answer)))
  /\ lastOp' = "configResponse"
  /\ UNCHANGED <<textVars, elVars, graphVars, uiVars, ctlVars, cageVars, physVars,
                 settingsVars, configScript, page, controllerStarted, urlUsed,
                 removedNode, hadPrediction, lastPredictions>>

\* the next script of the page runs: app.js, or cage/app.js with its
\* assignment to API_BASE_URL
RunControllerScript ==
  /\ configLoad # "idle"
  /\ ~controllerStarted
  /\ controllerStarted' = TRUE
  /\ API_BASE_URL' = IF page = "cage" THEN CageUrl ELSE API_BASE_URL
  /\ lastOp' = "controllerScript"
  /\ UNCHANGED <<textVars, elVars, graphVars, uiVars, ctlVars, cageVars, physVars,
                 settingsVars, configScript, page, configLoad, configAnswer,
                 configThrew, urlUsed, assignedAfterStart, removedNode, hadPrediction, lastPredictions>>

\* a handler of the controller sends a request to `${API_BASE_URL}/...`
ControllerRequest ==
  /\ controllerStarted
  /\ urlUsed' = API_BASE_URL
  /\ lastOp' = "controllerRequest"
  /\ UNCHANGED <<textVars, elVars, graphVars, uiVars, ctlVars, cageVars, physVars,
                 settingsVars, configScript, page, API_BASE_URL, configLoad,
                 configAnswer, configThrew, controllerStarted, assignedAfterStart,
                 removedNode, hadPrediction, lastPredictions>>

NextConfig ==
  \/ RunConfigScript
  \/ \E answer \in ConfigAnswers : ConfigResponse(answer)
  \/ RunControllerScript
  \/ ControllerRequest

SpecConfig == InitConfigPage /\ [][NextConfig]_vars

(***************************************************************************)
(* Properties                                                              *)
(***************************************************************************)
\* multiset of the undirected edges of an edge list
EdgeBag(es) ==
  LET mm == minMaxEdges(es)
  IN [p \in Range(mm) |-> Cardinality({i \in 1..Len(mm) : mm[i] = p})]
\* number of edges joining a and b
EdgeCount(es, a, b) == Cardinality({i \in 1..Len(es) : edgeContains(es[i], a, b)})

TextTriangleTyped == <<<<Tok(0), Tok(1)>>, <<Tok(1), Tok(2)>>, <<Tok(2), Tok(0)>>>>
TextTriangleReversed == <<<<Tok(1), Tok(0)>>, <<Tok(2), Tok(1)>>, <<Tok(0), Tok(2)>>>>
TextTriangleCanonical == <<<<Tok(0), Tok(1)>>, <<Tok(0), Tok(2)>>, <<Tok(1), Tok(2)>>>>

\* C2 as stated: formatGraphInput maps "0 1\n1 2\n2 0" to itself and
\* "1 0\n2 1\n0 2" to "0 1\n1 2\n2 0".
C2_Original ==
  (lastOp = "format" /\ fmtIn \in {TextTriangleTyped, TextTriangleReversed})
    => graphInput = TextTriangleTyped

\* C2 amended: formatGraphInput maps both "0 1\n1 2\n2 0" and "1 0\n2 1\n0 2"
\* to "0 1\n0 2\n1 2" (every edge smaller endpoint first, edges sorted by (v1, v2)).
C2_TriangleCanonical ==
  (lastOp = "format" /\ fmtIn \in {TextTriangleTyped, TextTriangleReversed})
    => graphInput = TextTriangleCanonical

C2_Witness ==
  lastOp = "format" /\ fmtIn = TextTriangleReversed /\ graphInput = TextTriangleCanonical

\* C3 as stated: in every state of the edge-list model, also one loaded from a
\* text with parallel edges, Graph.addEdge(a, b) applied twice restores the
\* multiset of edges.
C3_Original ==
  \A a \in Range(elNodes), b \in Range(elNodes) :
    EdgeBag(ELaddEdge(ELaddEdge(elEdges, a, b), a, b)) = EdgeBag(elEdges)

\* C3 amended: Graph.addEdge(a, b) applied twice restores the multiset of
\* edges whenever at most one edge joins a and b before the first call
\* (a # b or a = b); with parallel a-b edges each call removes one of them.
C3_ToggleTwice ==
  \A a \in Range(elNodes), b \in Range(elNodes) :
    /\ EdgeCount(elEdges, a, b) <= 1 =>
         EdgeBag(ELaddEdge(ELaddEdge(elEdges, a, b), a, b)) = EdgeBag(elEdges)
    /\ EdgeCount(elEdges, a, b) >= 2 =>
         /\ EdgeCount(ELaddEdge(elEdges, a, b), a, b) = EdgeCount(elEdges, a, b) - 1
         /\ EdgeCount(ELaddEdge(ELaddEdge(elEdges, a, b), a, b), a, b)
              = EdgeCount(elEdges, a, b) - 2

C3_Witness ==
  /\ lastOp = "addEdge"
  /\ \E a \in Range(elNodes), b \in Range(elNodes) :
       a # b /\ EdgeCount(elEdges, a, b) = 1 /\ EdgeCount(elEdges, a, a) = 1
          /\ EdgeCount(elEdges, b, b) = 0


\* a canonical text: the lines of isolated vertices, ascending, then the edge
\* lines "v1 v2" with v1 <= v2, sorted by (v1, v2), repeated lines allowed
IsCanonical(text) ==
  \E k \in 0..Len(text) :
    /\ \A i \in 1..k : Len(text[i]) = 1 /\ text[i][1][1] = "int"
    /\ \A i \in (k + 1)..Len(text) :
         /\ Len(text[i]) = 2 /\ text[i][1][1] = "int" /\ text[i][2][1] = "int"
         /\ text[i][1][2] <= text[i][2][2]
    /\ \A i \in 1..k, j \in 1..k : i < j => text[i][1][2] < text[j][1][2]
    /\ \A i \in 1..k, j \in (k + 1)..Len(text) :
         text[i][1][2] \notin {text[j][1][2], text[j][2][2]}
    /\ \A i \in (k + 1)..Len(text), j \in (k + 1)..Len(text) :
         i < j => ~pairLess(<<text[j][1][2], text[j][2][2]>>, <<text[i][1][2], text[i][2][2]>>)

\* C1 as stated: after Graph.fromEdgeList(T) of the adjacency-list Graph for a
\* canonical text T, Graph.toEdgeList() is exactly T.
C1_Original ==
  (lastOp = "load" /\ IsCanonical(graphInput)) => toEdgeList(Cur) = graphInput

\* C4 as stated: after deleteNode(v) no neighbors entry of a present node is
\* v, and neither selectedNode nor edgeStart is v.
C4_Original ==
  (lastOp = "deleteNode" /\ removedNode # null) =>
    /\ \A r \in Range(nodes) : removedNode \notin Range(nbrs[r])
    /\ selectedNode # removedNode
    /\ edgeStart # removedNode

\* C5 as stated: in every state the editor reaches, every neighbors entry of
\* every node of graph.nodes is a node of graph.nodes.
C5_Original ==
  \A r \in Range(nodes) : Range(nbrs[r]) \subseteq Range(nodes)

\* C6 as stated: a prediction shown on a node comes from a request whose text
\* is the edge list of the graph as it is when the response is applied.
C6_Original ==
  \A r \in Range(nodes) : pred[r] # PredictionFor(FALSE)

\* C7 as stated: once stopGeneration has finished, and until the next
\* startGeneration, polling is halted and the panel is the "Stopped by user"
\* one.
C7_Original ==
  stopFinished => (pollingInterval = null /\ statusDisplay = <<"status", "stopped">>)

\* C8: after the interval callback has handled a status with is_complete,
\* pollingInterval is null, #generateBtn is enabled, #stopBtn is disabled, and
\* the panel carries the success block iff status.success, the error block
\* otherwise.
C8_CompleteStopsPolling ==
  (lastOp = "pollResponse" /\ lastStatus.is_complete) =>
    /\ pollingInterval = null
    /\ ~generateBtnDisabled
    /\ stopBtnDisabled
    /\ lastStatus.success <=> statusDisplay = <<"status", "success">>
    /\ ~lastStatus.success <=> statusDisplay = <<"error">>

C8_Witness ==
  /\ lastOp = "pollResponse" /\ lastStatus.is_complete /\ lastStatus.success
  /\ statusDisplay = <<"status", "success">>
  /\ pollingInterval = null /\ ~generateBtnDisabled /\ stopBtnDisabled

\* C9 as stated: startGeneration sends the request iff #degreeK holds an
\* integer >= 2 and #girthG an integer >= 3; otherwise it alerts and leaves
\* #generateBtn enabled.
C9_Original ==
  lastOp = "startGeneration" =>
    LET valid == /\ startIn[1][1] = "int" /\ startIn[1][2] >= 2
                 /\ startIn[2][1] = "int" /\ startIn[2][2] >= 3
    IN /\ requestSent <=> valid
       /\ ~valid => (alerted /\ ~generateBtnDisabled)

\* C10 as stated: after a failed status poll pollingInterval is null,
\* #generateBtn is enabled and the panel shows an error.
C10_Original ==
  lastOp = "pollFailed" =>
    (pollingInterval = null /\ ~generateBtnDisabled /\ statusDisplay = <<"error">>)

\* C11 as stated: after a failed request (here POST /analyze rejected, or
\* answered with a status that is not ok) the error banner is shown.
C11_Original ==
  lastOp = "analyzeFailed" => errorShown

\* C12 as stated: the loading indicator is shown and #analyzeBtn disabled
\* exactly while at least one analysis request is in flight.
C12_Original ==
  /\ Len(inflight) > 0 => (loading /\ analyzeBtnDisabled)
  /\ Len(inflight) = 0 => (~loading /\ ~analyzeBtnDisabled)

\* C13 as stated: PhysicsEngine.step leaves x and y of every node whose fixed
\* flag is set as they were.
C13_Original ==
  [][lastOp' = "physicsStep" =>
       \A r \in Range(nodes) : fixed[r] => (posX'[r] = posX[r] /\ posY'[r] = posY[r])]_vars

\* C14 as stated: of dragging a vertex (draggingNode set), drawing an edge
\* (edgeStart set) and panning the canvas (panningCanvas), at most one holds.
C14_Original ==
  /\ ~(draggingNode # null /\ edgeStart # null)
  /\ ~(draggingNode # null /\ panningCanvas)
  /\ ~(edgeStart # null /\ panningCanvas)

\* C15 as stated: saving with minNodes > maxNodes or minProbability >
\* maxProbability shows a message and leaves the settings as they were when
\* the dialog was opened.
C15_Original ==
  LET now == getGraphSettings(settingsFields)
  IN (/\ lastOp = "saveSettings"
      /\ \/ now.min_nodes > now.max_nodes
         \/ now.min_probability > now.max_probability)
       => (alerted /\ now = settingsAtOpen)

\* C16 as stated: when loadConfig settles (here before the controller script
\* has touched the URL), API_BASE_URL is the delivered apiBaseUrl if the fetch
\* was ok and the document had the field, the hardcoded default otherwise, and
\* loadConfig has not thrown.
C16_Original ==
  (lastOp = "configResponse" /\ ~controllerStarted) =>
    /\ API_BASE_URL = IF configAnswer = "okWithUrl" THEN DeliveredUrl ELSE DefaultUrl(configScript)
    /\ ~configThrew

\* C17 as stated: the configuration load has settled before the controller
\* script runs, and it assigns nothing after the controller script has run.
C17_Original ==
  /\ controllerStarted => configLoad = "done"
  /\ ~assignedAfterStart

\* C18 as stated: the text formatGraphInput returns is canonical (isolated
\* ids ascending, then edge lines "v1 v2" with v1 <= v2 sorted by (v1, v2)),
\* and formatGraphInput returns it unchanged.
C18_Original ==
  lastOp = "format" =>
    (IsCanonical(graphInput) /\ formatGraphInput(graphInput) = graphInput)

\* C19: in the text formatGraphInput returns, an id that stood alone on a line
\* of the input and is an endpoint of no edge of the input has a line of its
\* own before every edge line, and an id that stood alone on a line but is an
\* endpoint of an edge has no line of its own.
C19_IsolatedFirst ==
  lastOp = "format" =>
    LET edges == parsedEdges(fmtIn)
        endpoints == UNION {{edges[i][1], edges[i][2]} : i \in 1..Len(edges)}
        ownLines(v) == {i \in 1..Len(graphInput) : graphInput[i] = <<numeral(v)>>}
        edgeLineAt == {i \in 1..Len(graphInput) : Len(graphInput[i]) = 2}
    IN \A v \in parsedSingles(fmtIn) :
         IF v \in endpoints THEN ownLines(v) = {}
         ELSE /\ ownLines(v) # {}
              /\ \A i \in ownLines(v), j \in edgeLineAt : i < j

C19_Witness ==
  /\ lastOp = "format"
  /\ fmtIn = <<<<Tok(0), Tok(1)>>, <<Tok(2)>>, <<Tok(1)>>>>
  /\ graphInput = <<<<Tok(2)>>, <<Tok(0), Tok(1)>>>>

modelEdges(E) ==
  LET ge == getEdges(E) IN sortSeq([i \in 1..Len(ge) |-> edgeKey(E, ge[i])], TRUE)

\* C21 as stated: in every state the id of every node of graph.nodes is a
\* non-negative integer, also after Graph.fromEdgeList of a text that holds
\* the token "-1".
C21_Original ==
  \A r \in Range(nodes) : nid[r] >= 0

\* a part that is an integer numeral and nothing else
isIntegerToken(tok) == tok[1] \in {"int", "huge"}
\* the lines left when every line with a part that is no integer among its
\* first two parts is taken out
withoutBadLines(text) ==
  LET allInteger(line) == \A i \in 1..Min2(2, Len(line)) : isIntegerToken(line[i])
  IN SelectSeq(text, allInteger)

\* C22 as stated: after Graph.fromEdgeList(T) the nodes and edges are those
\* of loading T without the lines that have a part that is no integer among
\* their first two parts ("1x 2", "a 3").
C22_Original ==
  lastOp = "load" =>
    LET G == graphFromEdgeList(Cur, withoutBadLines(graphInput))
    IN /\ usedIds(Cur) = usedIds(G)
       /\ modelEdges(Cur) = modelEdges(G)

\* C23 as stated: after Graph.fromEdgeList(T) the ids of graph.nodes are
\* exactly the ids T declares alone on a line or as an edge endpoint, the
\* edges are exactly the edges T declares (one per edge line), no node has a
\* prediction, no neighbors entry or selection refers to a node of the
\* earlier graph, and a blank T leaves no node.
C23_Original ==
  lastOp = "load" =>
    /\ usedIds(Cur) = Range(fromEdgeListIds(graphInput))
    /\ modelEdges(Cur) = sortSeq(minMaxEdges(fromEdgeListEdges(graphInput)), TRUE)
    /\ \A r \in Range(nodes) : ~hasPrediction(Cur, r)
    /\ \A r \in Range(nodes) : Range(nbrs[r]) \subseteq Range(nodes)
    /\ selectedNode = null
    /\ isBlankText(graphInput) => Len(nodes) = 0

incidentEndpoints(E, r) ==
  LET ge == getEdges(E)
  IN Cardinality({i \in 1..Len(ge) : ge[i][1] = r})
     + Cardinality({i \in 1..Len(ge) : ge[i][2] = r})

\* C26 as stated: GraphNode.degree of every node of graph.nodes is the number
\* of edge endpoints at the node, a self-loop counting twice.
C26_Original ==
  \A r \in Range(nodes) : degree(Cur, r) = incidentEndpoints(Cur, r)

\* C25 as stated: no node of graph.nodes has two neighbors entries with the
\* same id, that is, no two edges join the same pair of ids, in any state the
\* pointer actions reach from the empty canvas.
C25_Original ==
  \A r \in Range(nodes) :
    \A i \in 1..Len(nbrs[r]), j \in 1..Len(nbrs[r]) :
      i # j => nid[nbrs[r][i]] # nid[nbrs[r][j]]

\* C27 as stated: a left press on empty canvas while an edge is being drawn
\* ends the edge-draw and leaves graph.nodes and every neighbors list as they
\* were.
C27_Original ==
  [][(edgeStart # null /\ LeftClickEmpty)
       => (edgeStart' = null /\ nodes' = nodes /\ nid' = nid /\ nbrs' = nbrs)]_vars

\* C29 as stated: if the edits stop, then from some time on every node of a
\* non-empty graph shows a prediction computed for the graph as it is.
C29_Original ==
  \/ []<><<Edit>>_vars
  \/ <>[](\A r \in Range(nodes) : pred[r] = PredictionFor(TRUE))

\* C30: after Graph.updatePredictions(predictions) a node of graph.nodes
\* shows the values of the last record of predictions with its id, or no
\* prediction when there is none, whatever it showed before, and the nodes and
\* their neighbors are as before.
C30_UpdatePredictions ==
  [][lastOp' = "updatePredictions" =>
       /\ nodes' = nodes /\ nid' = nid /\ nbrs' = nbrs
       /\ \A r \in Range(nodes) :
            LET predictions == lastPredictions'
                matching == {i \in 1..Len(predictions) : predictions[i].nodeId = nid[r]}
                last == CHOOSE i \in matching : \A j \in matching : j <= i
            IN IF matching = {} THEN pred'[r] = NoPrediction
               ELSE pred'[r] = Shown(predictions[last].predicted, predictions[last].actual)]_vars

C30_Witness ==
  /\ lastOp = "updatePredictions"
  /\ hadPrediction
  /\ Len(lastPredictions) = 2
  /\ lastPredictions[1].nodeId = lastPredictions[2].nodeId
  /\ lastPredictions[1].predicted # lastPredictions[2].predicted
  /\ Len(nodes) = 2
  /\ pred[nodes[1]] = NoPrediction
  /\ pred[nodes[2]] = Shown(0, 1)

\* C28: when a handler that adds or removes a node, or adds or removes a
\* neighbors entry, returns, no node of graph.nodes has a prediction.
C28_MutationClearsPredictions ==
  [][(lastOp' \in {"ui", "deleteNode"} /\ <<nodes, nid, nbrs>>' # <<nodes, nid, nbrs>>)
       => \A r \in Range(nodes') : pred'[r] = NoPrediction]_vars

C28_Witness ==
  /\ hadPrediction
  /\ lastOp = "deleteNode"
  /\ Len(nodes) > 0
  /\ \A r \in Range(nodes) : pred[r] = NoPrediction

\* C31: loadFromEdgeList leaves physics.enabled as it was; when the loaded
\* graph has a node, exactly 200 calls of physics.step get past the gate, also
\* with physics disabled, and two nodes placed apart are moved; when it has
\* none, no step runs.
C31_PreSettle ==
  [][lastOp' = "loadSettle" =>
       /\ physicsEnabled' = physicsEnabled
       /\ stepsRun' = IF Len(nodes') > 0 THEN SettleIterations ELSE 0
       /\ Len(nodes') = 2 => \A r \in Range(nodes') : posX'[r] # placedX'[r]]_vars

C31_Witness ==
  /\ lastOp = "loadSettle"
  /\ ~physicsEnabled
  /\ Len(nodes) = 2
  /\ stepsRun = SettleIterations
  /\ posX[1] # placedX[1]

\* C32: loadSettings returns the defaults (polling interval 300, physics not
\* on) when nothing is stored; with a stored record every stored field
\* overrides its default and every missing field keeps it; and loadSettings
\* right after saveSettings returns the generatorType and the polling interval
\* that were saved.
C32_LoadSettings ==
  /\ [](lastOp = "cageLoadSettings" =>
         LET d == defaultSettings(cageScript)
             r == cageSettingsRead
         IN IF cageStorage = NoItem
            THEN /\ r = d
                 /\ r.generatorType[2] \in GeneratorTypes
                 /\ r.pollingInterval = Num(300)
                 /\ r.enablePhysics # Bool(TRUE)
            ELSE \A f \in DOMAIN r :
                   r[f] = IF JSONparse(cageStorage)[f] # Undefined
                          THEN JSONparse(cageStorage)[f] ELSE d[f])
  /\ [][lastOp = "cageSaveSettings" /\ lastOp' = "cageLoadSettings" =>
          /\ cageSettingsRead'.generatorType = Str(cageSettingsFields.generatorType)
          /\ cageSettingsRead'.pollingInterval[1] = "num"
          /\ Tok(cageSettingsRead'.pollingInterval[2]) = cageSettingsFields.pollingInterval]_vars

C32_Witness ==
  /\ lastOp = "cageLoadSettings"
  /\ cageStorage # NoItem
  /\ cageSettingsRead # defaultSettings(cageScript)
  /\ cageSettingsRead # JSONparse(cageStorage)
  /\ \E f \in DOMAIN cageSettingsRead :
        JSONparse(cageStorage)[f] = Undefined /\ cageSettingsRead[f] # Undefined

\* C33: with two nodes joined by one edge, |distance - springLength| does not
\* increase from one physics step to the next.
C33_Original ==
  [][lastOp' = "springStep" =>
       Abs(separation' - springLength) <= Abs(separation - springLength)]_vars

\* C34: the response to a status poll sent for an earlier session leaves the
\* polling interval, #generateBtn and #statusDisplay of the current session
\* as they are.
C34_Original ==
  [][(/\ lastOp' = "pollResponse"
      /\ \E i \in 1..Len(polls) : polls' = removeAt(polls, i) /\ polls[i] # currentSessionId)
     => <<pollingInterval, generateBtnDisabled, statusDisplay>>'
          = <<pollingInterval, generateBtnDisabled, statusDisplay>>]_vars

\* C35: #generateBtn is disabled whenever a POST /generate is in flight or a
\* polling interval is active.
C35_Original ==
  (Len(starts) > 0 \/ pollingInterval # null) => generateBtnDisabled

\* C36: every interval setInterval has created has been cleared, except
\* possibly the one held in pollingInterval.
C36_OneInterval ==
  intervals = IF pollingInterval = null THEN {} ELSE {pollingInterval}

C36_Witness ==
  /\ sessions = 2
  /\ intervals = {2}
  /\ pollingInterval = 2
  /\ lastOp = "startResponse"

\* C37: selectedNode, draggingNode and edgeStart are null or a node of
\* graph.nodes.
C37_Original ==
  \A v \in {selectedNode, draggingNode, edgeStart} : v = null \/ v \in Range(nodes)

\* C38: between handlers formatGraphInput of the text box is the text
\* Graph.toEdgeList writes for the editor's graph.
C38_Original ==
  formatGraphInput(graphInput) = toEdgeList(Cur)

\* C39: for every node a of the graph, every node of a.neighbors has a in its
\* own neighbors, and a.neighbors holds no node twice.
C39_AdjacencySymmetric ==
  \A a \in Range(nodes) :
    /\ \A b \in Range(nbrs[a]) : a \in Range(nbrs[b])
    /\ \A i \in 1..Len(nbrs[a]), j \in 1..Len(nbrs[a]) : i # j => nbrs[a][i] # nbrs[a][j]

C39_Witness ==
  /\ lastOp = "removeEdge"
  /\ Len(nodes) = 2
  /\ nbrs[nodes[1]] = <<nodes[1]>>
  /\ nbrs[nodes[2]] = <<>>
====
